---- MODULE Spec2Model ----
(***************************************************************************)
(* A model of the poker engine: card primitives and Deck (step1), the      *)
(* 7-card hand evaluator (step2_3), the Monte Carlo equity simulator       *)
(* (step4_5), the CFR solver (step6_7), the MCTS engine (step8) and the    *)
(* EQR calculator (step9).  Each component has its own specification       *)
(* (SpecEval, SpecDeck, SpecEq, SpecCFR, SpecMCTS, SpecEQR) over the       *)
(* variables of that component; the variables                              *)
(* of the other components keep their initial values.                      *)
(***************************************************************************)
EXTENDS Integers, Sequences, FiniteSets, TLC

VARIABLES
    ubShift,   \* outcome of the undefined shift `mask >> -1` while the tables are built
    ev,        \* evaluator session: the arrays handed to evaluate_7cards and the scores returned
    deck,      \* a Deck object and a record of the calls made on it
    eq,        \* one call of calculate_equity: the coordinator, its threads and `results`
    cfr,       \* a CFRSolver, the call stack of its traversal and the latest get_strategy call
    mcts,      \* an MCTSSearch: its tree, simulation_count and the latest query on it
    eqr        \* the latest call of the EQR calculator and what it returned

vars == <<ubShift, ev, deck, eq, cfr, mcts, eqr>>

(***************************************************************************)
(* Bit operations of the C++ source on non-negative integers.              *)
(***************************************************************************)
RECURSIVE BitOr(_, _)
BitOr(a, b) ==
    IF a = 0 THEN b
    ELSE IF b = 0 THEN a
    ELSE (IF a % 2 = 1 \/ b % 2 = 1 THEN 1 ELSE 0) + 2 * BitOr(a \div 2, b \div 2)

RECURSIVE BitAnd(_, _)
BitAnd(a, b) ==
    IF a = 0 \/ b = 0 THEN 0
    ELSE (IF a % 2 = 1 /\ b % 2 = 1 THEN 1 ELSE 0) + 2 * BitAnd(a \div 2, b \div 2)

Shl(x, n) == x * (2 ^ n)

Shr(x, n) == x \div (2 ^ n)

RECURSIVE popcount(_)
popcount(x) == IF x = 0 THEN 0 ELSE (x % 2) + popcount(x \div 2)

\* conversion of an int to uint16_t
U16(x) == x % 65536

(***************************************************************************)
(* step1: card primitives                                                  *)
(***************************************************************************)
RANK_COUNT == 13

SUIT_COUNT == 4

DECK_SIZE == 52

\* the marker exclude_cards writes into the slots it empties
INVALID_CARD == 255

make_card(rank, suit) == (suit * RANK_COUNT + rank) % 256

get_rank(card) == card % RANK_COUNT

get_suit(card) == card \div RANK_COUNT

\* A CardMask is modelled as the set of the bit positions that are set.
card_to_mask(card) == {card}

\* 1ULL << card is undefined for card >= 64 (the marker 255): ub is the
\* outcome of the test in that case
has_card(mask, card, ub) ==
    IF card < 64 THEN (mask \cap card_to_mask(card)) # {} ELSE ub

(***************************************************************************)
(* uint64_t values as four 16-bit limbs <<bits 0..15, 16..31, 32..47,      *)
(* 48..63>>                                                                *)
(***************************************************************************)
RECURSIVE BitXorBits(_, _)
BitXorBits(a, b) ==
    IF a = 0 THEN b
    ELSE IF b = 0 THEN a
    ELSE ((a + b) % 2) + 2 * BitXorBits(a \div 2, b \div 2)

\* a ^ b for 4-bit values, tabulated
XorNibble == [a \in 0..15 |-> [b \in 0..15 |-> BitXorBits(a, b)]]

\* a ^ b for 16-bit values
BitXor(a, b) ==
    XorNibble[a % 16][b % 16]
    + 16 * XorNibble[(a \div 16) % 16][(b \div 16) % 16]
    + 256 * XorNibble[(a \div 256) % 16][(b \div 256) % 16]
    + 4096 * XorNibble[a \div 4096][b \div 4096]

\* the uint64_t with the value n, for 0 <= n < 2^31
U64(n) == <<n % 65536, n \div 65536, 0, 0>>

U64Xor(a, b) ==
    <<BitXor(a[1], b[1]), BitXor(a[2], b[2]), BitXor(a[3], b[3]), BitXor(a[4], b[4])>>

\* a << 13
U64Shl13(a) ==
    << (a[1] * 8192) % 65536,
       ((a[2] * 8192) % 65536) + (a[1] \div 8),
       ((a[3] * 8192) % 65536) + (a[2] \div 8),
       ((a[4] * 8192) % 65536) + (a[3] \div 8) >>

\* a >> 7
U64Shr7(a) ==
    << (a[1] \div 128) + ((a[2] * 512) % 65536),
       (a[2] \div 128) + ((a[3] * 512) % 65536),
       (a[3] \div 128) + ((a[4] * 512) % 65536),
       a[4] \div 128 >>

\* a << 17
U64Shl17(a) ==
    << 0,
       (a[1] * 2) % 65536,
       ((a[2] * 2) % 65536) + (a[1] \div 32768),
       ((a[3] * 2) % 65536) + (a[2] \div 32768) >>

\* the value of the low `limbs` limbs of a, modulo m
RECURSIVE LimbsMod(_, _, _)
LimbsMod(a, limbs, m) ==
    IF limbs = 0 THEN 0
    ELSE LET hi == LimbsMod(<<a[2], a[3], a[4], 0>>, limbs - 1, m)
         IN  (hi * 65536 + a[1]) % m

\* one xorshift64 step with the shifts 13, 7, 17
Xorshift64(state) ==
    LET s1 == U64Xor(state, U64Shl13(state))
        s2 == U64Xor(s1, U64Shr7(s1))
    IN  U64Xor(s2, U64Shl17(s2))

\* Arrays are sequences: slot i of a C++ array is element i + 1.
Swap(f, i, j) == [f EXCEPT ![i + 1] = f[j + 1], ![j + 1] = f[i + 1]]

(***************************************************************************)
(* step1: Deck                                                             *)
(***************************************************************************)
\* one pass of the loop body of Deck::shuffle at index i; st holds the array
\* and the generator state
DeckShuffleStep(st, i) ==
    LET s == Xorshift64(st.seed)
        j == LimbsMod(s, 4, i + 1)
    IN  [cards |-> Swap(st.cards, i, j), seed |-> s]

\* the passes of the loop of Deck::shuffle for i = hi, hi-1, ..., lo in this
\* order (evaluated by halving the range)
RECURSIVE DeckShuffleRange(_, _, _)
DeckShuffleRange(st, hi, lo) ==
    IF hi < lo THEN st
    ELSE IF hi = lo THEN DeckShuffleStep(st, hi)
    ELSE LET mid == (hi + lo) \div 2
             upper == DeckShuffleRange(st, hi, mid + 1)
         IN  \* the test forces the value of `upper` before the recursion goes on
             IF upper.seed = upper.seed /\ upper.cards = upper.cards
             THEN DeckShuffleRange(upper, mid, lo) ELSE st

DeckShuffleLoop(cs, seed, i) == DeckShuffleRange([cards |-> cs, seed |-> seed], i, 1).cards

\* the first loop of exclude_cards: the array and write_pos when it ends
RECURSIVE ExcludeLoop(_, _, _, _, _)
ExcludeLoop(cs, excluded, i, write_pos, ub) ==
    IF i >= DECK_SIZE THEN [cards |-> cs, write_pos |-> write_pos]
    ELSE IF ~has_card(excluded, cs[i + 1], ub)
         THEN ExcludeLoop([cs EXCEPT ![write_pos + 1] = cs[i + 1]], excluded,
                          i + 1, write_pos + 1, ub)
         ELSE ExcludeLoop(cs, excluded, i + 1, write_pos, ub)

\* the second loop of exclude_cards: the marker in every slot from i on
RECURSIVE InvalidateLoop(_, _)
InvalidateLoop(cs, i) ==
    IF i >= DECK_SIZE THEN cs
    ELSE IF cs[i + 1] = INVALID_CARD THEN InvalidateLoop(cs, i + 1)
    ELSE InvalidateLoop([cs EXCEPT ![i + 1] = INVALID_CARD], i + 1)

ExcludedCards(cs, excluded, ub) ==
    LET r == ExcludeLoop(cs, excluded, 0, 0, ub)
    IN  InvalidateLoop(r.cards, r.write_pos)

\* the array 0, 1, ..., n-1
RECURSIVE Iota(_)
Iota(n) == IF n = 0 THEN <<>> ELSE Append(Iota(n - 1), n - 1)

(***************************************************************************)
(* step2_3: the evaluator's tables                                         *)
(***************************************************************************)
RANK_STRAIGHT_FLUSH == 8

RANK_FOUR_OF_KIND == 7

RANK_FULL_HOUSE == 6

RANK_FLUSH == 5

RANK_STRAIGHT == 4

RANK_THREE_OF_KIND == 3

RANK_TWO_PAIR == 2

RANK_ONE_PAIR == 1

RANK_HIGH_CARD == 0

is_straight(mask) ==
    \/ \E i \in 0..8 : BitAnd(Shr(mask, i), 31) = 31
    \/ BitAnd(mask, 4111) = 4111

\* The loop test of get_highest_straight at index i. At i = 3 the shift count
\* is i-4 = -1, which is undefined: its outcome is ubShift.
StraightWindowAt(mask, i) ==
    IF i - 4 >= 0 THEN BitAnd(Shr(mask, i - 4), 31) = 31 ELSE ubShift

RECURSIVE HighestStraightLoop(_, _)
HighestStraightLoop(mask, i) ==
    IF i < 3 THEN 3
    ELSE IF StraightWindowAt(mask, i) THEN i
    ELSE HighestStraightLoop(mask, i - 1)

\* a variant that ranks the wheel by its ace
HighestStraightAceWheel(mask) ==
    IF \E i \in 0..8 : BitAnd(Shr(mask, i), 31) = 31
    THEN HighestStraightLoop(mask, 12) ELSE 12

get_highest_straight(mask) == HighestStraightLoop(mask, 12)

\* the loop of get_top_cards: i runs down from 12 while found < count
RECURSIVE TopCardsLoop(_, _, _, _, _)
TopCardsLoop(mask, count, i, found, result) ==
    IF i < 0 \/ found >= count THEN result
    ELSE IF BitAnd(mask, Shl(1, i)) # 0
         THEN TopCardsLoop(mask, count, i - 1, found + 1,
                           BitOr(result, Shl(i, found * 4)))
         ELSE TopCardsLoop(mask, count, i - 1, found, result)

get_top_cards(mask, count) == TopCardsLoop(mask, count, 12, 0, 0)

evaluate_flush_hand(mask) ==
    IF is_straight(mask)
    THEN U16(BitOr(Shl(RANK_STRAIGHT_FLUSH, 12), Shl(get_highest_straight(mask), 8)))
    ELSE U16(BitOr(Shl(RANK_FLUSH, 12), get_top_cards(mask, 5)))

evaluate_unique5(mask) ==
    IF is_straight(mask)
    THEN U16(BitOr(Shl(RANK_STRAIGHT, 12), Shl(get_highest_straight(mask), 8)))
    ELSE U16(BitOr(Shl(RANK_HIGH_CARD, 12), get_top_cards(mask, 5)))

\* g_tables.flush_lookup[i], filled for every i in [0, 8192)
flush_lookup(i) == evaluate_flush_hand(i)

\* g_tables.unique5_lookup[i]: filled only where popcount(i) = 5; the other
\* entries of the static table keep their zero initialisation
unique5_lookup(i) == IF popcount(i) = 5 THEN evaluate_unique5(i) ELSE 0

(***************************************************************************)
(* step2_3: HandEvaluator                                                  *)
(***************************************************************************)
is_straight_from_mask(mask) ==
    \/ \E i \in 0..8 : BitAnd(Shr(mask, i), 31) = 31
    \/ BitAnd(mask, 4111) = 4111

RECURSIVE StraightHighLoop(_, _)
StraightHighLoop(mask, i) ==
    IF i < 4 THEN 3
    ELSE IF BitAnd(Shr(mask, i - 4), 31) = 31 THEN i
    ELSE StraightHighLoop(mask, i - 1)

get_straight_high(mask) == StraightHighLoop(mask, 12)

RECURSIVE HighestKickerLoop(_, _, _)
HighestKickerLoop(counts, excl, r) ==
    IF r < 0 THEN 0
    ELSE IF r \notin excl /\ counts[r] > 0 THEN r
    ELSE HighestKickerLoop(counts, excl, r - 1)

get_highest_kicker(counts, exclude) == HighestKickerLoop(counts, {exclude}, 12)

get_highest_kicker_exclude(counts, ex1, ex2) == HighestKickerLoop(counts, {ex1, ex2}, 12)

RECURSIVE TopKickersLoop(_, _, _, _, _, _)
TopKickersLoop(counts, exclude, n, r, found, result) ==
    IF r < 0 \/ found >= n THEN result
    ELSE IF r # exclude /\ counts[r] > 0
         THEN TopKickersLoop(counts, exclude, n, r - 1, found + 1,
                             BitOr(result, Shl(r, found * 4)))
         ELSE TopKickersLoop(counts, exclude, n, r - 1, found, result)

get_top_kickers(counts, exclude, n) == TopKickersLoop(counts, exclude, n, 12, 0, 0)

MaxOf(S) == CHOOSE x \in S : \A y \in S : y <= x

MinOf(S) == CHOOSE x \in S : \A y \in S : x <= y

\* the descending scan of evaluate_non_flush (lines 133-141)
ScanQuads(counts) ==
    LET Q == {r \in 0..12 : counts[r] = 4} IN IF Q = {} THEN -1 ELSE MinOf(Q)

ScanTrips(counts) ==
    LET T == {r \in 0..12 : counts[r] = 3} IN IF T = {} THEN -1 ELSE MaxOf(T)

ScanPairs(counts) ==
    LET P  == {r \in 0..12 : counts[r] = 2}
        p0 == IF P = {} THEN -1 ELSE MaxOf(P)
        P1 == P \ {p0}
        p1 == IF P1 = {} THEN -1 ELSE MaxOf(P1)
    IN  [pairs |-> <<p0, p1>>, pair_count |-> IF Cardinality(P) < 2 THEN Cardinality(P) ELSE 2]

\* the pair rank of the full-house branch (lines 151-158)
FullHousePair(counts, trips, pairs) ==
    LET T2 == {r \in 0..12 : counts[r] = 3 /\ r # trips}
    IN  IF T2 # {} THEN MaxOf(T2) ELSE pairs[1]

\* the condition of the full-house branch (line 150)
IsFullHouseBranch(trips, pairs, pair_count) ==
    trips # -1 /\ (pairs[1] # -1 \/ pair_count > 0)

evaluate_non_flush(counts, rank_mask) ==
    LET quads == ScanQuads(counts)
        trips == ScanTrips(counts)
        sp    == ScanPairs(counts)
        pairs == sp.pairs
        pair_count == sp.pair_count
    IN  IF quads # -1
        THEN BitOr(BitOr(Shl(RANK_FOUR_OF_KIND, 12), Shl(quads, 8)),
                   get_highest_kicker(counts, quads))
        ELSE IF IsFullHouseBranch(trips, pairs, pair_count)
        THEN BitOr(BitOr(Shl(RANK_FULL_HOUSE, 12), Shl(trips, 8)),
                   FullHousePair(counts, trips, pairs))
        ELSE IF is_straight_from_mask(rank_mask)
        THEN BitOr(Shl(RANK_STRAIGHT, 12), Shl(get_straight_high(rank_mask), 8))
        ELSE IF trips # -1
        THEN BitOr(BitOr(Shl(RANK_THREE_OF_KIND, 12), Shl(trips, 8)),
                   get_top_kickers(counts, trips, 2))
        ELSE IF pair_count >= 2
        THEN BitOr(BitOr(BitOr(Shl(RANK_TWO_PAIR, 12), Shl(pairs[1], 8)),
                         Shl(pairs[2], 4)),
                   get_highest_kicker_exclude(counts, pairs[1], pairs[2]))
        ELSE IF pair_count = 1
        THEN BitOr(BitOr(Shl(RANK_ONE_PAIR, 12), Shl(pairs[1], 8)),
                   get_top_kickers(counts, pairs[1], 3))
        ELSE unique5_lookup(BitAnd(rank_mask, 8191))

\* suit_masks[s] after the loop over the 7 cards (line 109)
RECURSIVE SuitMaskLoop(_, _, _)
SuitMaskLoop(cards, s, i) ==
    IF i = 0 THEN 0
    ELSE LET prev == SuitMaskLoop(cards, s, i - 1)
         IN  IF get_suit(cards[i]) = s
             THEN U16(BitOr(prev, Shl(1, get_rank(cards[i]))))
             ELSE prev

\* rank_mask after the loop over the 7 cards (line 111)
RECURSIVE RankMaskLoop(_, _)
RankMaskLoop(cards, i) ==
    IF i = 0 THEN 0
    ELSE U16(BitOr(RankMaskLoop(cards, i - 1), Shl(1, get_rank(cards[i]))))

\* rank_counts after the loop over the 7 cards (line 110)
RankCounts(cards) ==
    [r \in 0..12 |-> Cardinality({i \in 1..7 : get_rank(cards[i]) = r})]

evaluate_7cards(cards) ==
    LET suit_masks == [s \in 0..3 |-> SuitMaskLoop(cards, s, 7)]
        flushSuits == {s \in 0..3 : popcount(suit_masks[s]) >= 5}
    IN  IF flushSuits # {}
        THEN flush_lookup(suit_masks[MinOf(flushSuits)])
        ELSE evaluate_non_flush(RankCounts(cards), RankMaskLoop(cards, 7))

(***************************************************************************)
(* step4_5: FastRNG and EquityCalculator::run_simulation                   *)
(***************************************************************************)
\* FastRNG::next: the new state, which is also the value returned
FastRNG_next(state) == Xorshift64(state)

\* FastRNG::next_int(max) on the state that next() has just produced
FastRNG_next_int(state, max) == LimbsMod(state, 2, max)

\* Result = {0, 0, 0, 0, iterations}; equity is the pair <<numerator,
\* denominator>> of the quotient the code computes (0 over 0 for 0.0f)
NewResult(iterations) ==
    [equity |-> <<0, 0>>, wins |-> 0, ties |-> 0, losses |-> 0, iterations |-> iterations]

\* dead_cards after the loop over the board
RECURSIVE DeadCards(_, _, _, _)
DeadCards(hero_card1, hero_card2, board, i) ==
    IF i = 0 THEN card_to_mask(hero_card1) \cup card_to_mask(hero_card2)
    ELSE DeadCards(hero_card1, hero_card2, board, i - 1) \cup card_to_mask(board[i])

\* the filled slots 0..deck_size-1 of the local array `deck` after the loop
\* over c = 0..DECK_SIZE-1; the slots from deck_size on stay uninitialized
RECURSIVE AvailableDeck(_, _)
AvailableDeck(dead_cards, c) ==
    IF c = 0 THEN <<>>
    ELSE LET below == AvailableDeck(dead_cards, c - 1)
         IN  IF ~has_card(dead_cards, c - 1, FALSE) THEN Append(below, c - 1) ELSE below

\* one pass of the Fisher-Yates loop of run_simulation at index i
SimShuffleStep(st, i) ==
    LET s == FastRNG_next(st.rng)
        j == FastRNG_next_int(s, i + 1)
    IN  [deck |-> Swap(st.deck, i, j), rng |-> s]

\* the passes for i = hi, hi-1, ..., lo in this order (evaluated by halving
\* the range)
RECURSIVE SimShuffleRange(_, _, _)
SimShuffleRange(st, hi, lo) ==
    IF hi < lo THEN st
    ELSE IF hi = lo THEN SimShuffleStep(st, hi)
    ELSE LET mid == (hi + lo) \div 2
             upper == SimShuffleRange(st, hi, mid + 1)
         IN  \* the test forces the value of `upper` before the recursion goes on
             IF upper.rng = upper.rng /\ upper.deck = upper.deck
             THEN SimShuffleRange(upper, mid, lo) ELSE st

\* deck[pos]; the slots from deck_size on were never written: -1 stands for
\* the indeterminate value read there
DeckSlot(dk, pos) == IF pos < Len(dk) THEN dk[pos + 1] ELSE -1

\* full_board after the two loops that fill it
FullBoard(board, board_count, dk) ==
    [i \in 1..5 |-> IF i <= board_count THEN board[i] ELSE DeckSlot(dk, i - 1 - board_count)]

SevenCards(c1, c2, full_board) ==
    <<c1, c2, full_board[1], full_board[2], full_board[3], full_board[4], full_board[5]>>

\* the loop over the opponents in which every pass sets `won` anew and none
\* leaves the loop
RECURSIVE OpponentLoopLastDecides(_, _, _, _, _, _, _, _)
OpponentLoopLastDecides(dk, full_board, hero_score, opponents, opp, deck_pos, acc, garbage) ==
    IF opp >= opponents THEN acc
    ELSE LET c1 == DeckSlot(dk, deck_pos)
             c2 == DeckSlot(dk, deck_pos + 1)
             bad == c1 = -1 \/ c2 = -1 \/ \E i \in 1..5 : full_board[i] = -1
             opp_score == IF bad THEN -1 ELSE evaluate_7cards(SevenCards(c1, c2, full_board))
             higher == IF bad THEN garbage = "higher" ELSE opp_score > hero_score
             equal == IF bad THEN garbage = "equal" ELSE opp_score = hero_score
             read == acc.outside \/ bad
         IN  OpponentLoopLastDecides(dk, full_board, hero_score, opponents, opp + 1,
                                     deck_pos + 2,
                                     [won |-> ~higher, tied |-> acc.tied \/ equal,
                                      outside |-> read],
                                     garbage)

\* the loop over the opponents from `opp` on: won, tied and whether a slot
\* that was never written has been read.  A hand with an indeterminate card
\* has an indeterminate score: garbage is how that score compares with the
\* hero's ("lower", "equal" or "higher").
RECURSIVE OpponentLoop(_, _, _, _, _, _, _, _)
OpponentLoop(dk, full_board, hero_score, opponents, opp, deck_pos, acc, garbage) ==
    IF opp >= opponents THEN acc
    ELSE LET c1 == DeckSlot(dk, deck_pos)
             c2 == DeckSlot(dk, deck_pos + 1)
             bad == c1 = -1 \/ c2 = -1 \/ \E i \in 1..5 : full_board[i] = -1
             opp_score == IF bad THEN -1 ELSE evaluate_7cards(SevenCards(c1, c2, full_board))
             higher == IF bad THEN garbage = "higher" ELSE opp_score > hero_score
             equal == IF bad THEN garbage = "equal" ELSE opp_score = hero_score
             read == acc.outside \/ bad
         IN  IF higher THEN [won |-> FALSE, tied |-> acc.tied, outside |-> read]
             ELSE OpponentLoop(dk, full_board, hero_score, opponents, opp + 1, deck_pos + 2,
                               [won |-> TRUE, tied |-> acc.tied \/ equal, outside |-> read],
                               garbage)

\* the same statement without its inner `else`
CountOutcomeNoElse(result, won, tied) ==
    IF won
    THEN IF tied THEN [result EXCEPT !.ties = @ + 1, !.wins = @ + 1]
         ELSE [result EXCEPT !.wins = @ + 1]
    ELSE [result EXCEPT !.losses = @ + 1]

\* the statement that closes the loop body: exactly one counter goes up
CountOutcome(result, won, tied) ==
    IF won
    THEN IF tied THEN [result EXCEPT !.ties = @ + 1] ELSE [result EXCEPT !.wins = @ + 1]
    ELSE [result EXCEPT !.losses = @ + 1]

\* one pass of the loop over iter: w holds the locals rng, deck, result, iter
\* of one run_simulation call, `arg' its arguments
SimIteration(w, arg, garbage) ==
    LET sh == SimShuffleRange([deck |-> w.deck, rng |-> w.rng], Len(w.deck) - 1, 1)
        full_board == FullBoard(arg.board, arg.board_count, sh.deck)
        boardBad == \E i \in 1..5 : full_board[i] = -1
        hero_score == IF boardBad THEN 0
                      ELSE evaluate_7cards(SevenCards(arg.hero_card1, arg.hero_card2, full_board))
        out == OpponentLoop(sh.deck, full_board, hero_score, arg.opponents, 0,
                            5 - arg.board_count,
                            [won |-> TRUE, tied |-> FALSE, outside |-> boardBad], garbage)
    IN  [w EXCEPT !.rng = sh.rng,
                  !.deck = sh.deck,
                  !.result = CountOutcome(w.result, out.won, out.tied),
                  !.outside = w.outside \/ out.outside,
                  !.iter = w.iter + 1]

\* the locals of run_simulation when its loop is entered
SimBegin(arg, iterations, seed) ==
    [pc |-> "loop", rng |-> seed, iter |-> 0, result |-> NewResult(iterations),
     deck |-> AvailableDeck(DeadCards(arg.hero_card1, arg.hero_card2, arg.board, arg.board_count),
                            DECK_SIZE),
     outside |-> FALSE]

\* the loop of run_simulation from the state w on, and the Result returned
RECURSIVE SimLoop(_, _)
SimLoop(w, arg) ==
    IF w.iter >= w.result.iterations THEN w.result
    ELSE LET n == SimIteration(w, arg, "lower")
         IN  IF n.rng = n.rng /\ n.deck = n.deck /\ n.result = n.result
             THEN SimLoop(n, arg) ELSE w.result

\* run_simulation as a function of its arguments, for the calls in which no
\* unwritten slot is read
run_simulation(arg, iterations, seed) == SimLoop(SimBegin(arg, iterations, seed), arg)

\* number of cards the array `deck` receives, and number one iteration takes
SurvivingCards(arg) ==
    Len(AvailableDeck(DeadCards(arg.hero_card1, arg.hero_card2, arg.board, arg.board_count),
                      DECK_SIZE))

CardsNeeded(arg) == (5 - arg.board_count) + 2 * arg.opponents

(***************************************************************************)
(* Evaluator sessions: two 7-card arrays are drawn from a small deck, the   *)
(* second equal to the first or differing from it in one card, and each is *)
(* handed to evaluate_7cards.                                              *)
(***************************************************************************)
\* number of cards of a deck below from which the 7-card arrays are drawn
EvalDeckSize == 9

\* card = suit * 13 + rank; rank 0 is the deuce, rank 12 the ace
EvalDecks ==
    << \* As 2s 3s 4s 5s 6s Kh 9d 7c Qs: wheel, straight flushes, flushes, straights
       <<12, 0, 1, 2, 3, 4, 24, 33, 44, 10>>,
       \* 7s 7h 7d 7c Ks Kh Kd As Ah 2c: quads, full houses, two trips
       <<5, 18, 31, 44, 11, 24, 37, 12, 25, 39>>,
       \* As Ad Ah Kh Qd 9c 8s 5h 3d 2c: trips, one pair, high card, kickers
       <<12, 38, 25, 24, 36, 46, 6, 16, 27, 39>>,
       \* As Ah Kd Kc 7s 7h 9d 4c 2h 9c: two pair, three pairs, one pair
       <<12, 25, 37, 50, 5, 18, 33, 41, 13, 46>> >>

EvalDeck(d) ==
    LET n == IF EvalDeckSize < Len(EvalDecks[d]) THEN EvalDeckSize ELSE Len(EvalDecks[d])
    IN  {EvalDecks[d][i] : i \in 1..n}

RECURSIVE SortedSeq(_)
SortedSeq(S) == IF S = {} THEN <<>> ELSE <<MinOf(S)>> \o SortedSeq(S \ {MinOf(S)})

SevenOf(D) == {SortedSeq(D \ {x, y}) : x, y \in D} \cap [1..7 -> D]

\* a < b in the lexicographic order of the sorted arrays
RECURSIVE SeqLeq(_, _, _)
SeqLeq(a, b, i) ==
    IF i > Len(a) THEN TRUE
    ELSE IF a[i] # b[i] THEN a[i] < b[i]
    ELSE SeqLeq(a, b, i + 1)

\* ev.cards: the two arrays; ev.score: the score returned for each (-1: not
\* evaluated yet)
EvalIdle == [cards |-> <<>>, score |-> <<-1, -1>>]

EvalPairs(d) ==
    {<<a, b>> \in SevenOf(EvalDeck(d)) \X SevenOf(EvalDeck(d)) :
        /\ SeqLeq(a, b, 1)
        /\ Cardinality({a[i] : i \in 1..7} \cap {b[i] : i \in 1..7}) >= 6}

\* one call of evaluate_7cards_perfect on array k
Evaluate(k) ==
    /\ ev.score[k] = -1
    /\ ev' = [ev EXCEPT !.score[k] = evaluate_7cards(ev.cards[k])]
    /\ UNCHANGED <<ubShift, deck, eq, cfr, mcts, eqr>>

(***************************************************************************)
(* Deck sessions: a Deck is constructed and then shuffled, dealt from,     *)
(* reset and filtered in any order.                                        *)
(***************************************************************************)
\* at most this many shuffle and exclude_cards calls are made on one deck
MaxDeckCalls == 2

\* the seeds handed to shuffle are 0..MaxDeckSeed
MaxDeckSeed == 1

\* the masks handed to exclude_cards
DeckMasks == { {0}, {12, 25}, {c \in 0..51 : get_rank(c) >= 1}, {} }

\* Deck::Deck(), with the record of the calls:
\*   cards, position  the fields of Deck (slot i of cards is element i + 1)
\*   dealt    the value the latest deal() returned (-1: none since the latest exclude_cards)
\*   mask     the mask of the latest exclude_cards call
\*   clean    an exclude_cards call happened and only deal() and reset() followed it
\*   aborted  the assert of deal() failed
\*   calls    number of shuffle and exclude_cards calls so far
DeckNew ==
    [cards |-> Iota(DECK_SIZE), position |-> 0, dealt |-> -1, mask |-> {},
     clean |-> FALSE, aborted |-> FALSE, calls |-> 0]

DeckShuffle(seed) ==
    /\ ~deck.aborted
    /\ deck.calls < MaxDeckCalls
    /\ deck' = [deck EXCEPT !.calls = @ + 1,
                            !.position = 0,
                            !.cards = DeckShuffleLoop(deck.cards, U64(seed), DECK_SIZE - 1),
                            !.clean = FALSE]
    /\ UNCHANGED <<ubShift, ev, eq, cfr, mcts, eqr>>

\* deal() with the assertion holding
DeckDeal ==
    /\ ~deck.aborted
    /\ deck.position < DECK_SIZE
    /\ deck' = [deck EXCEPT !.dealt = deck.cards[deck.position + 1],
                            !.position = @ + 1]
    /\ UNCHANGED <<ubShift, ev, eq, cfr, mcts, eqr>>

\* deal() with position >= DECK_SIZE: the assertion fails
DeckDealExhausted ==
    /\ ~deck.aborted
    /\ deck.position >= DECK_SIZE
    /\ deck' = [deck EXCEPT !.aborted = TRUE]
    /\ UNCHANGED <<ubShift, ev, eq, cfr, mcts, eqr>>

DeckReset ==
    /\ ~deck.aborted
    /\ deck' = [deck EXCEPT !.position = 0]
    /\ UNCHANGED <<ubShift, ev, eq, cfr, mcts, eqr>>

\* exclude_cards(excluded); ub is the outcome of has_card on the marker 255,
\* whose shift is undefined
DeckExclude(excluded, ub) ==
    /\ ~deck.aborted
    /\ deck.calls < MaxDeckCalls
    /\ ub => \E i \in 1..DECK_SIZE : deck.cards[i] >= 64
    /\ deck' = [deck EXCEPT !.calls = @ + 1,
                            !.cards = ExcludedCards(deck.cards, excluded, ub),
                            !.mask = excluded,
                            !.clean = TRUE,
                            !.dealt = -1]
    /\ UNCHANGED <<ubShift, ev, eq, cfr, mcts, eqr>>

(***************************************************************************)
(* Equity sessions: one call of calculate_equity.  The coordinator creates *)
(* one thread per hardware thread, each thread runs run_simulation and     *)
(* stores what it returns in its slot of `results`; the coordinator joins  *)
(* the threads in order and adds the slots up.  The threads take their     *)
(* steps in any order.                                                     *)
(***************************************************************************)
\* the iteration targets handed to calculate_equity are 0..MaxEqIterations
MaxEqIterations == 4

\* a call asks for at most this many opponent hands over all its iterations
MaxEqHands == 46

\* the seeds handed to calculate_equity, and the values std::random_device
\* yields, are 0..MaxEqSeed
MaxEqSeed == 1

\* std::thread::hardware_concurrency() is in 1..MaxEqThreads
MaxEqThreads == 2

\* hero cards, board and number of opponents (card = suit * 13 + rank)
EqScenarios ==
    { \* As Ah against one hand, no board
      [hero_card1 |-> 12, hero_card2 |-> 25, board |-> <<>>, opponents |-> 1],
      \* 7d 2c against two hands, no board
      [hero_card1 |-> 31, hero_card2 |-> 39, board |-> <<>>, opponents |-> 2],
      \* the board is a royal flush in spades: every hand plays the board
      [hero_card1 |-> 13, hero_card2 |-> 27, board |-> <<8, 9, 10, 11, 12>>, opponents |-> 1],
      \* Kh Qh on the flop 2s 3h 4d
      [hero_card1 |-> 24, hero_card2 |-> 23, board |-> <<0, 14, 28>>, opponents |-> 1],
      \* 23 hands and no board: 51 cards are taken from the 50 that survive
      [hero_card1 |-> 0, hero_card2 |-> 1, board |-> <<>>, opponents |-> 23] }

EqCalls ==
    UNION { { [hero_card1 |-> s.hero_card1, hero_card2 |-> s.hero_card2, board |-> s.board,
               board_count |-> Len(s.board), opponents |-> s.opponents,
               iterations |-> n, seed |-> sd] :
                 sd \in 0..MaxEqSeed,
                 n \in {k \in 0..MaxEqIterations : k * s.opponents <= MaxEqHands} } :
            s \in EqScenarios }

\* a thread that has been created and has not run yet
NewThread ==
    [pc |-> "start", rng |-> U64(0), iter |-> 0, result |-> NewResult(0), deck |-> <<>>,
     outside |-> FALSE]

\* calculate_equity(arg) about to run on a machine with hw hardware threads:
\*   pc        "entry", "spawn", "join" or "done" ("idle": no call)
\*   seed, num_threads, iters_per_thread, t, final   the locals of the call
\*   joined    number of threads the join loop has passed
\*   threads   the locals of run_simulation in each thread (slot t is element t + 1)
\*   results   the vector `results`
EqCall(arg, hw) ==
    [pc |-> "entry", arg |-> arg, hw |-> hw, seed |-> 0, num_threads |-> 0,
     iters_per_thread |-> 0, t |-> 0, joined |-> 0, threads |-> <<>>, results |-> <<>>,
     final |-> NewResult(0)]

EqIdle == [EqCall([hero_card1 |-> 0, hero_card2 |-> 1, board |-> <<>>, board_count |-> 0,
                   opponents |-> 1, iterations |-> 0, seed |-> 1], 1) EXCEPT !.pc = "idle"]

\* lines 52-61: the seed, the thread count, the share of each thread and the
\* value-initialized vector `results`; rd is the value of std::random_device
CalcEntry(rd) ==
    /\ eq.pc = "entry"
    /\ eq' = [eq EXCEPT !.pc = "spawn",
                        !.seed = IF eq.arg.seed = 0 THEN rd ELSE eq.arg.seed,
                        !.num_threads = eq.hw,
                        !.iters_per_thread = eq.arg.iterations \div eq.hw,
                        !.results = [i \in 1..eq.hw |-> NewResult(0)]]
    /\ UNCHANGED <<ubShift, ev, deck, cfr, mcts, eqr>>

\* one pass of the loop that creates the threads
CalcSpawn ==
    /\ eq.pc = "spawn"
    /\ eq.t < eq.num_threads
    /\ eq' = [eq EXCEPT !.threads = Append(@, NewThread),
                        !.t = @ + 1,
                        !.pc = IF eq.t + 1 < eq.num_threads THEN "spawn" ELSE "join"]
    /\ UNCHANGED <<ubShift, ev, deck, cfr, mcts, eqr>>

\* thread t enters run_simulation with the seed `seed + t`
ThreadStart(t) ==
    /\ t < Len(eq.threads)
    /\ eq.threads[t + 1].pc = "start"
    /\ eq' = [eq EXCEPT !.threads[t + 1] =
                            SimBegin(eq.arg, eq.iters_per_thread, U64(eq.seed + t))]
    /\ UNCHANGED <<ubShift, ev, deck, cfr, mcts, eqr>>

\* how the score of a hand with an indeterminate card may compare with the
\* hero's; when every slot read was written the choice has no effect
GarbageOutcomes(arg) ==
    IF SurvivingCards(arg) >= CardsNeeded(arg) THEN {"lower"}
    ELSE {"lower", "equal", "higher"}

\* thread t makes one pass of the loop over iter
ThreadIterate(t) ==
    /\ t < Len(eq.threads)
    /\ eq.threads[t + 1].pc = "loop"
    /\ eq.threads[t + 1].iter < eq.threads[t + 1].result.iterations
    /\ \E garbage \in GarbageOutcomes(eq.arg) :
          eq' = [eq EXCEPT !.threads[t + 1] = SimIteration(@, eq.arg, garbage)]
    /\ UNCHANGED <<ubShift, ev, deck, cfr, mcts, eqr>>

\* thread t leaves the loop; the Result is stored in results[t]
ThreadReturn(t) ==
    /\ t < Len(eq.threads)
    /\ eq.threads[t + 1].pc = "loop"
    /\ eq.threads[t + 1].iter >= eq.threads[t + 1].result.iterations
    /\ eq' = [eq EXCEPT !.threads[t + 1].pc = "done",
                        !.results[t + 1] = eq.threads[t + 1].result]
    /\ UNCHANGED <<ubShift, ev, deck, cfr, mcts, eqr>>

\* a join that does not wait
ThreadFinishedNoWait(t) == t < Len(eq.threads)

\* thread.join() returns once the thread has finished
ThreadFinished(t) == eq.threads[t + 1].pc = "done"

\* one pass of the loop that joins the threads
CalcJoin ==
    /\ eq.pc = "join"
    /\ eq.joined < eq.num_threads
    /\ ThreadFinished(eq.joined)
    /\ eq' = [eq EXCEPT !.joined = @ + 1]
    /\ UNCHANGED <<ubShift, ev, deck, cfr, mcts, eqr>>

\* the sums over results[0..n-1]
RECURSIVE SumResults(_, _)
SumResults(results, n) ==
    IF n = 0 THEN NewResult(0)
    ELSE LET s == SumResults(results, n - 1)
             r == results[n]
         IN  [s EXCEPT !.wins = @ + r.wins, !.ties = @ + r.ties,
                       !.losses = @ + r.losses, !.iterations = @ + r.iterations]

\* (wins + ties * 0.5f) / iterations as the pair <<numerator, denominator>>
WithEquity(r) == [r EXCEPT !.equity = <<2 * r.wins + r.ties, 2 * r.iterations>>]

\* lines 79-90: the results are added up and returned
CalcAggregate ==
    /\ eq.pc = "join"
    /\ eq.joined = eq.num_threads
    /\ eq' = [eq EXCEPT !.pc = "done",
                        !.final = WithEquity(SumResults(eq.results, Len(eq.results)))]
    /\ UNCHANGED <<ubShift, ev, deck, cfr, mcts, eqr>>

(***************************************************************************)
(* step6_7: InfoSet and CFRSolver.  A double is kept as an integer number  *)
(* of units of 1/FP; a std::map is a function on the set of its keys.      *)
(***************************************************************************)
FP == 1000

\* a / b rounded towards zero
Quot(a, b) == IF a >= 0 THEN a \div b ELSE -((-a) \div b)

\* product and quotient of two doubles
MulFP(a, b) == Quot(a * b, FP)

DivFP(a, b) == Quot(a * FP, b)

\* std::max(0.0, x)
Max0(x) == IF x > 0 THEN x ELSE 0

EmptyMap == [x \in {} |-> 0]

MapPut(m, k, v) == [x \in (DOMAIN m) \cup {k} |-> IF x = k THEN v ELSE m[x]]

\* std::map::operator[]: the map afterwards (a missing key is inserted with 0.0)
MapTouch(m, k) == IF k \in DOMAIN m THEN m ELSE MapPut(m, k, 0)

\* the map after operator[] on each of actions[1..i]
RECURSIVE MapTouchAll(_, _, _)
MapTouchAll(m, actions, i) ==
    IF i = 0 THEN m ELSE MapTouch(MapTouchAll(m, actions, i - 1), actions[i])

\* the sum of f[actions[1]], ..., f[actions[i]]
RECURSIVE SumOver(_, _, _)
SumOver(f, actions, i) ==
    IF i = 0 THEN 0 ELSE SumOver(f, actions, i - 1) + f[actions[i]]

SeqRange(s) == {s[i] : i \in 1..Len(s)}

\* a default-constructed InfoSet
NewInfoSet == [regret_sum |-> EmptyMap, strategy_sum |-> EmptyMap, visit_count |-> 0]

\* InfoSet::get_strategy: the map returned (regret_sum has been touched at
\* every legal action before)
InfoSet_get_strategy(regret_sum, legal_actions) ==
    LET regret == [a \in SeqRange(legal_actions) |-> Max0(regret_sum[a])]
        normalizing_sum == SumOver(regret, legal_actions, Len(legal_actions))
        uniform == DivFP(FP, Len(legal_actions) * FP)
    IN  IF normalizing_sum > 0
        THEN [a \in SeqRange(legal_actions) |-> DivFP(regret[a], normalizing_sum)]
        ELSE [a \in SeqRange(legal_actions) |-> uniform]

\* get_average_strategy with the sum taken over every stored action
AverageOverStored(strategy_sum, legal_actions) ==
    LET stored == DOMAIN strategy_sum
        total == SumOver(strategy_sum, SortedSeq(stored), Cardinality(stored))
    IN  IF total > 0
        THEN [a \in SeqRange(legal_actions) |-> <<strategy_sum[a], total>>]
        ELSE [a \in SeqRange(legal_actions) |-> <<1, Len(legal_actions)>>]

\* InfoSet::get_average_strategy: the map returned (strategy_sum has been
\* touched at every legal action before); a quotient x / y of the code is
\* returned as the pair <<x, y>>
InfoSet_get_average_strategy(strategy_sum, legal_actions) ==
    LET normalizing_sum == SumOver(strategy_sum, legal_actions, Len(legal_actions))
    IN  IF normalizing_sum > 0
        THEN [a \in SeqRange(legal_actions) |-> <<strategy_sum[a], normalizing_sum>>]
        ELSE [a \in SeqRange(legal_actions) |-> <<1, Len(legal_actions)>>]

\* InfoSet::accumulate_strategy: strategy_sum afterwards
accumulate_strategy(strategy_sum, strategy, iteration) ==
    LET weight == DivFP(iteration * FP, (iteration + 1) * FP)
    IN  [a \in (DOMAIN strategy_sum) \cup (DOMAIN strategy) |->
            IF a \in DOMAIN strategy
            THEN (IF a \in DOMAIN strategy_sum THEN strategy_sum[a] ELSE 0)
                 + MulFP(strategy[a], weight)
            ELSE strategy_sum[a]]

\* InfoSet::update_regrets without the std::max
UpdateRegretsNoClip(regret_sum, regrets, weight) ==
    [a \in (DOMAIN regret_sum) \cup (DOMAIN regrets) |->
        IF a \in DOMAIN regrets
        THEN (IF a \in DOMAIN regret_sum THEN regret_sum[a] ELSE 0) + MulFP(weight, regrets[a])
        ELSE regret_sum[a]]

\* InfoSet::update_regrets: regret_sum afterwards
update_regrets(regret_sum, regrets, weight) ==
    [a \in (DOMAIN regret_sum) \cup (DOMAIN regrets) |->
        IF a \in DOMAIN regrets
        THEN Max0((IF a \in DOMAIN regret_sum THEN regret_sum[a] ELSE 0)
                  + MulFP(weight, regrets[a]))
        ELSE regret_sum[a]]

\* discount_alpha and discount_beta
discount_alpha == 1500

discount_beta == 500

\* std::pow(x, -1.0)
PowMinusOne(x) == DivFP(FP, x)

\* CFRSolver::discount_regrets: info_sets afterwards
discount_regrets(info_sets) ==
    [key \in DOMAIN info_sets |->
        [info_sets[key] EXCEPT
            !.regret_sum = [a \in DOMAIN @ |-> MulFP(@[a], PowMinusOne(discount_alpha))],
            !.strategy_sum = [a \in DOMAIN @ |-> MulFP(@[a], PowMinusOne(discount_beta))]]]

\* train discounts when iteration is a multiple of this
DiscountPeriod == 100

(***************************************************************************)
(* The game hooks of CFRSolver.  A game is a table of positions; the hooks *)
(* answer for the position the traversal stands at.  The hooks of the      *)
(* source answer the same at every position: StubGame has one position,    *)
(* which every action leads back to.  The other games stand for hooks that *)
(* a caller supplies.                                                      *)
(***************************************************************************)
Leaf(u) ==
    [terminal |-> TRUE, chance |-> FALSE, current_player |-> 0, key |-> "",
     actions |-> <<>>, payoff |-> <<u, -u>>, outcomes |-> <<>>, next |-> <<>>]

Decision(p, k, acts, nxt) ==
    [terminal |-> FALSE, chance |-> FALSE, current_player |-> p, key |-> k,
     actions |-> acts, payoff |-> <<0, 0>>, outcomes |-> <<>>, next |-> nxt]

Chance(outs, nxt) ==
    [terminal |-> FALSE, chance |-> TRUE, current_player |-> 0, key |-> "",
     actions |-> <<>>, payoff |-> <<0, 0>>, outcomes |-> outs, next |-> nxt]

\* hooks under which every action ends the game
StubGameThatEnds == << Decision(0, "example_state", <<0, 1, 2>>, <<2, 2, 2>>), Leaf(0) >>

\* lines 237-246
StubGame == << Decision(0, "example_state", <<0, 1, 2>>, <<1, 1, 1>>) >>

\* one decision of player 0 with the payoffs 1, -1, 0
OneShotGame ==
    << Decision(0, "k0", <<0, 1, 2>>, <<2, 3, 4>>), Leaf(FP), Leaf(-FP), Leaf(0) >>

\* matching pennies: player 1 does not see the move of player 0
PenniesGame ==
    << Decision(0, "a", <<0, 1>>, <<2, 3>>),
       Decision(1, "b", <<0, 1>>, <<4, 5>>), Decision(1, "b", <<0, 1>>, <<5, 4>>),
       Leaf(FP), Leaf(-FP) >>

\* a coin is tossed, then one of the players moves
CoinGame ==
    << Chance(<< <<0, 500>>, <<1, 500>> >>, <<2, 3>>),
       Decision(0, "c0", <<0, 1>>, <<4, 5>>), Decision(1, "c1", <<0, 1, 2>>, <<5, 6, 4>>),
       Leaf(2 * FP), Leaf(-FP), Leaf(0) >>

Games == <<StubGame, OneShotGame, PenniesGame, CoinGame>>

is_terminal(g, n) == Games[g][n].terminal

is_chance_node(g, n) == Games[g][n].chance

get_current_player(g, n) == Games[g][n].current_player

get_info_set_key(g, n) == Games[g][n].key

get_legal_actions(g, n) == Games[g][n].actions

get_payoff(g, n, player) == Games[g][n].payoff[player + 1]

get_chance_outcomes(g, n) == Games[g][n].outcomes

(***************************************************************************)
(* CFR sessions: train passes and get_strategy calls on one CFRSolver.     *)
(* cfr_recursive runs on an explicit stack: one frame per handler that is  *)
(* inside its loop.                                                        *)
(***************************************************************************)
\* iteration stays below this
MaxCfrIterations == 100

\* the call stack holds at most this many handler frames
MaxCfrDepth == 5

\* the keys and the action lists handed to get_strategy
QueryKeys == {"example_state", "k0", "b", "c1", "nowhere"}

QueryActions == { <<0, 1, 2>>, <<0, 1>>, <<1, 7>> }

NoCall == [node |-> 0, depth |-> 0, pi_reach_player |-> 0, pi_reach_opponent |-> 0]

NoAnswer == [key |-> "", legal_actions |-> <<>>, known |-> FALSE, strategy |-> EmptyMap]

\* CFRSolver() with the hooks of game g:
\*   info_sets, iteration   the fields of CFRSolver
\*   pc       "idle": no call runs; "call": cfr_recursive is entered with the
\*            arguments in `call`; "loop": the handler of the top frame is at
\*            the head of its loop; "ret": a cfr_recursive call has returned
\*            `ret`; "overflow": the call stack is exhausted
\*   player   the loop variable of train
\*   stack    the frames of the handlers, the innermost last
\*   answer   the latest get_strategy call and what it returned
CfrNew(g) ==
    [game |-> g, info_sets |-> [k \in {} |-> NewInfoSet], iteration |-> 0, pc |-> "idle",
     player |-> 0, call |-> NoCall, ret |-> 0, stack |-> <<>>, answer |-> NoAnswer]

RootCall == [node |-> 1, depth |-> 0, pi_reach_player |-> FP, pi_reach_opponent |-> FP]

\* one pass of the loop of train begins: cfr_recursive(0, 0, 1.0, 1.0)
TrainPass ==
    /\ cfr.pc = "idle"
    /\ cfr.iteration < MaxCfrIterations
    /\ cfr' = [cfr EXCEPT !.iteration = @ + 1, !.player = 0, !.call = RootCall,
                          !.pc = "call", !.answer = NoAnswer]
    /\ UNCHANGED <<ubShift, ev, deck, eq, mcts, eqr>>

\* cfr_recursive at a terminal position
CfrTerminal ==
    /\ cfr.pc = "call"
    /\ is_terminal(cfr.game, cfr.call.node)
    /\ cfr' = [cfr EXCEPT !.ret = get_payoff(cfr.game, cfr.call.node, cfr.player),
                          !.call = NoCall, !.pc = "ret"]
    /\ UNCHANGED <<ubShift, ev, deck, eq, mcts, eqr>>

\* the recursion has used up the call stack
CfrOverflow ==
    /\ cfr.pc = "call"
    /\ ~is_terminal(cfr.game, cfr.call.node)
    /\ Len(cfr.stack) >= MaxCfrDepth
    /\ cfr' = [cfr EXCEPT !.pc = "overflow"]
    /\ UNCHANGED <<ubShift, ev, deck, eq, mcts, eqr>>

\* the frame of a handler entered with the arguments c
Frame(kind, c, key, items, strategy) ==
    [kind |-> kind, node |-> c.node, depth |-> c.depth,
     pi_reach_player |-> c.pi_reach_player, pi_reach_opponent |-> c.pi_reach_opponent,
     info_set_key |-> key, items |-> items, strategy |-> strategy, i |-> 0,
     action_utilities |-> EmptyMap, node_utility |-> 0]

\* handle_chance_node up to its loop
CfrChanceNode ==
    /\ cfr.pc = "call"
    /\ ~is_terminal(cfr.game, cfr.call.node)
    /\ is_chance_node(cfr.game, cfr.call.node)
    /\ Len(cfr.stack) < MaxCfrDepth
    /\ cfr' = [cfr EXCEPT !.stack = Append(@, Frame("chance", cfr.call, "",
                                              get_chance_outcomes(cfr.game, cfr.call.node),
                                              EmptyMap)),
                          !.call = NoCall, !.pc = "loop"]
    /\ UNCHANGED <<ubShift, ev, deck, eq, mcts, eqr>>

\* info_sets after `info_sets[key]` and InfoSet::get_strategy(legal_actions)
InfoSetsTouched(info_sets, key, legal_actions) ==
    LET set == IF key \in DOMAIN info_sets THEN info_sets[key] ELSE NewInfoSet
        touched == [set EXCEPT !.regret_sum =
                                  MapTouchAll(@, legal_actions, Len(legal_actions))]
    IN  [k \in (DOMAIN info_sets) \cup {key} |-> IF k = key THEN touched ELSE info_sets[k]]

\* handle_player_node or handle_opponent_node (kind) up to its loop
EnterDecision(kind) ==
    LET key == get_info_set_key(cfr.game, cfr.call.node)
        legal_actions == get_legal_actions(cfr.game, cfr.call.node)
        sets == InfoSetsTouched(cfr.info_sets, key, legal_actions)
        strategy == InfoSet_get_strategy(sets[key].regret_sum, legal_actions)
    IN  cfr' = [cfr EXCEPT !.info_sets = sets,
                           !.stack = Append(@, Frame(kind, cfr.call, key, legal_actions,
                                                     strategy)),
                           !.call = NoCall, !.pc = "loop"]

CfrPlayerNode ==
    /\ cfr.pc = "call"
    /\ ~is_terminal(cfr.game, cfr.call.node)
    /\ ~is_chance_node(cfr.game, cfr.call.node)
    /\ get_current_player(cfr.game, cfr.call.node) = cfr.player
    /\ Len(cfr.stack) < MaxCfrDepth
    /\ EnterDecision("player")
    /\ UNCHANGED <<ubShift, ev, deck, eq, mcts, eqr>>

CfrOpponentNode ==
    /\ cfr.pc = "call"
    /\ ~is_terminal(cfr.game, cfr.call.node)
    /\ ~is_chance_node(cfr.game, cfr.call.node)
    /\ get_current_player(cfr.game, cfr.call.node) # cfr.player
    /\ Len(cfr.stack) < MaxCfrDepth
    /\ EnterDecision("opponent")
    /\ UNCHANGED <<ubShift, ev, deck, eq, mcts, eqr>>

Top == cfr.stack[Len(cfr.stack)]

\* the probability the loop body of the top frame works with
ItemProb(f) ==
    IF f.kind = "chance" THEN f.items[f.i + 1][2] ELSE f.strategy[f.items[f.i + 1]]

\* the recursive call in the loop body of a handler
HandlerCall ==
    /\ cfr.pc = "loop"
    /\ Top.i < Len(Top.items)
    /\ cfr' = [cfr EXCEPT
          !.call = [node |-> Games[cfr.game][Top.node].next[Top.i + 1],
                    depth |-> Top.depth + 1,
                    pi_reach_player |->
                        IF Top.kind = "player"
                        THEN MulFP(Top.pi_reach_player, ItemProb(Top))
                        ELSE Top.pi_reach_player,
                    pi_reach_opponent |->
                        IF Top.kind = "opponent"
                        THEN MulFP(Top.pi_reach_opponent, ItemProb(Top))
                        ELSE Top.pi_reach_opponent],
          !.pc = "call"]
    /\ UNCHANGED <<ubShift, ev, deck, eq, mcts, eqr>>

\* the rest of the loop body once the recursive call has returned
HandlerResume ==
    /\ cfr.pc = "ret"
    /\ cfr.stack # <<>>
    /\ cfr' = [cfr EXCEPT
          !.stack[Len(cfr.stack)] =
              [@ EXCEPT !.action_utilities =
                            IF Top.kind = "player"
                            THEN MapPut(@, Top.items[Top.i + 1], cfr.ret) ELSE @,
                        !.node_utility = @ + MulFP(ItemProb(Top), cfr.ret),
                        !.i = @ + 1],
          !.ret = 0,
          !.pc = "loop"]
    /\ UNCHANGED <<ubShift, ev, deck, eq, mcts, eqr>>

\* handle_player_node after its loop: regrets, update_regrets,
\* accumulate_strategy, visit_count
PlayerNodeReturn ==
    /\ cfr.pc = "loop"
    /\ Top.kind = "player"
    /\ Top.i >= Len(Top.items)
    /\ LET regrets == [a \in SeqRange(Top.items) |-> Top.action_utilities[a] - Top.node_utility]
       IN  cfr' = [cfr EXCEPT
              !.info_sets[Top.info_set_key] =
                  [@ EXCEPT !.regret_sum = update_regrets(@, regrets, Top.pi_reach_opponent),
                            !.strategy_sum = accumulate_strategy(@, Top.strategy, cfr.iteration),
                            !.visit_count = @ + 1],
              !.stack = SubSeq(@, 1, Len(@) - 1),
              !.ret = Top.node_utility,
              !.pc = "ret"]
    /\ UNCHANGED <<ubShift, ev, deck, eq, mcts, eqr>>

\* handle_opponent_node that counts the visit as handle_player_node does
OpponentNodeReturnCounted ==
    /\ cfr.pc = "loop"
    /\ Top.kind = "opponent"
    /\ Top.i >= Len(Top.items)
    /\ cfr' = [cfr EXCEPT !.info_sets[Top.info_set_key].visit_count = @ + 1,
                          !.stack = SubSeq(@, 1, Len(@) - 1),
                          !.ret = Top.node_utility,
                          !.pc = "ret"]
    /\ UNCHANGED <<ubShift, ev, deck, eq, mcts, eqr>>

\* handle_opponent_node after its loop
OpponentNodeReturn ==
    /\ cfr.pc = "loop"
    /\ Top.kind = "opponent"
    /\ Top.i >= Len(Top.items)
    /\ cfr' = [cfr EXCEPT !.stack = SubSeq(@, 1, Len(@) - 1),
                          !.ret = Top.node_utility,
                          !.pc = "ret"]
    /\ UNCHANGED <<ubShift, ev, deck, eq, mcts, eqr>>

\* handle_chance_node after its loop
ChanceNodeReturn ==
    /\ cfr.pc = "loop"
    /\ Top.kind = "chance"
    /\ Top.i >= Len(Top.items)
    /\ cfr' = [cfr EXCEPT !.stack = SubSeq(@, 1, Len(@) - 1),
                          !.ret = Top.node_utility,
                          !.pc = "ret"]
    /\ UNCHANGED <<ubShift, ev, deck, eq, mcts, eqr>>

\* the traversal for player 0 has returned: cfr_recursive(0, 1, 1.0, 1.0)
TrainNextPlayer ==
    /\ cfr.pc = "ret"
    /\ cfr.stack = <<>>
    /\ cfr.player = 0
    /\ cfr' = [cfr EXCEPT !.player = 1, !.call = RootCall, !.ret = 0, !.pc = "call"]
    /\ UNCHANGED <<ubShift, ev, deck, eq, mcts, eqr>>

\* the traversal for player 1 has returned and iteration % 100 # 0
TrainPassEnd ==
    /\ cfr.pc = "ret"
    /\ cfr.stack = <<>>
    /\ cfr.player = 1
    /\ cfr.iteration % DiscountPeriod # 0
    /\ cfr' = [cfr EXCEPT !.ret = 0, !.pc = "idle"]
    /\ UNCHANGED <<ubShift, ev, deck, eq, mcts, eqr>>

\* the traversal for player 1 has returned and iteration % 100 = 0
TrainPassEndDiscount ==
    /\ cfr.pc = "ret"
    /\ cfr.stack = <<>>
    /\ cfr.player = 1
    /\ cfr.iteration % DiscountPeriod = 0
    /\ cfr' = [cfr EXCEPT !.info_sets = discount_regrets(@), !.ret = 0, !.pc = "idle"]
    /\ UNCHANGED <<ubShift, ev, deck, eq, mcts, eqr>>

\* CFRSolver::get_strategy(info_set_key, legal_actions)
GetStrategy(info_set_key, legal_actions) ==
    /\ cfr.pc = "idle"
    /\ IF info_set_key \notin DOMAIN cfr.info_sets
       THEN cfr' = [cfr EXCEPT !.answer =
                       [key |-> info_set_key, legal_actions |-> legal_actions, known |-> FALSE,
                        strategy |-> [a \in SeqRange(legal_actions) |->
                                         <<1, Len(legal_actions)>>]]]
       ELSE LET sums == MapTouchAll(cfr.info_sets[info_set_key].strategy_sum,
                                    legal_actions, Len(legal_actions))
            IN  cfr' = [cfr EXCEPT
                   !.info_sets[info_set_key].strategy_sum = sums,
                   !.answer = [key |-> info_set_key, legal_actions |-> legal_actions,
                               known |-> TRUE,
                               strategy |-> InfoSet_get_average_strategy(sums, legal_actions)]]
    /\ UNCHANGED <<ubShift, ev, deck, eq, mcts, eqr>>

(***************************************************************************)
(* step8: MCTSNode and MCTSSearch.  The tree is an array of nodes: node 1  *)
(* is the root, a pointer is an index and 0 is nullptr.  A double is kept  *)
(* in units of 1/FP.                                                       *)
(***************************************************************************)
\* EXPLORATION_CONSTANT = 1.41
EXPLORATION_CONSTANT == 1410

\* INFINITY
INFINITY == 1000000000

\* std::log(n) for n = 1, 2, ..., 12
LogTable == <<0, 693, 1099, 1386, 1609, 1792, 1946, 2079, 2197, 2303, 2398, 2485>>

\* the largest r in lo..hi with r * r <= x
RECURSIVE IntSqrt(_, _, _)
IntSqrt(x, lo, hi) ==
    IF lo >= hi THEN lo
    ELSE LET mid == (lo + hi + 1) \div 2
         IN  IF mid * mid <= x THEN IntSqrt(x, mid, hi) ELSE IntSqrt(x, lo, mid - 1)

\* std::sqrt
SqrtFP(x) == IntSqrt(x * FP, 0, 40000)

\* a default-constructed MCTSNode
NewNode ==
    [visits |-> 0, total_value |-> 0, action |-> -1, parent |-> 0, children |-> <<>>,
     untried_actions |-> <<>>, is_terminal |-> FALSE]

\* MCTSNode::get_ucb1_score of node n
get_ucb1_score(tree, n) ==
    IF tree[n].visits = 0 THEN INFINITY
    ELSE IF tree[n].parent = 0 THEN 0
    ELSE LET exploitation == Quot(tree[n].total_value, tree[n].visits)
             exploration == MulFP(EXPLORATION_CONSTANT,
                                  SqrtFP(Quot(LogTable[tree[tree[n].parent].visits],
                                              tree[n].visits)))
         IN  exploitation + exploration

\* the loop of select_best_child from child i on; best = 0 is nullptr, whose
\* best_score is -INFINITY
RECURSIVE BestChildLoop(_, _, _, _, _)
BestChildLoop(tree, kids, i, best, best_score) ==
    IF i > Len(kids) THEN best
    ELSE LET score == get_ucb1_score(tree, kids[i])
         IN  IF best = 0 \/ score > best_score
             THEN BestChildLoop(tree, kids, i + 1, kids[i], score)
             ELSE BestChildLoop(tree, kids, i + 1, best, best_score)

select_best_child(tree, n) == BestChildLoop(tree, tree[n].children, 1, 0, 0)

\* the selection loop of search from node n on
RECURSIVE Selection(_, _)
Selection(tree, n) ==
    IF tree[n].untried_actions = <<>> /\ tree[n].children # <<>>
    THEN Selection(tree, select_best_child(tree, n))
    ELSE n

\* the game hooks of MCTSSearch: the source's (lines 241-247) and two that
\* a caller supplies; `values` are the values a playout can return
MctsStub ==
    [after |-> [a \in 0..2 |-> <<>>], terminal_after |-> [a \in 0..2 |-> FALSE],
     values |-> {0}]

\* every action leads to a position with the actions 0 and 1
MctsBinary ==
    [after |-> [a \in 0..2 |-> <<0, 1>>], terminal_after |-> [a \in 0..2 |-> FALSE],
     values |-> {-FP, FP}]

\* action 1 ends the game, action 2 leads to a position without actions
MctsMixed ==
    [after |-> [a \in 0..2 |-> IF a = 0 THEN <<1, 0>> ELSE IF a = 1 THEN <<2>> ELSE <<>>],
     terminal_after |-> [a \in 0..2 |-> a = 1],
     values |-> {0, FP}]

MctsGames == <<MctsStub, MctsBinary, MctsMixed>>

get_legal_actions_after(g, action) == MctsGames[g].after[action]

is_terminal_state_after(g, action) == MctsGames[g].terminal_after[action]

\* the values simulate can return
SimulateValues(g) == MctsGames[g].values

RemoveAt(s, i) == SubSeq(s, 1, i - 1) \o SubSeq(s, i + 1, Len(s))

\* expand that leaves the action in untried_actions
ExpandNoErase(g, tree, n, idx) ==
    LET action == tree[n].untried_actions[idx + 1]
        child == [NewNode EXCEPT !.action = action,
                                 !.parent = n,
                                 !.untried_actions = get_legal_actions_after(g, action),
                                 !.is_terminal = is_terminal_state_after(g, action)]
    IN  Append([tree EXCEPT ![n].children = Append(@, Len(tree) + 1)], child)

\* expand(node) with idx the value drawn from dist(rng): the tree afterwards;
\* the new child is its last node
expand(g, tree, n, idx) ==
    LET action == tree[n].untried_actions[idx + 1]
        child == [NewNode EXCEPT !.action = action,
                                 !.parent = n,
                                 !.untried_actions = get_legal_actions_after(g, action),
                                 !.is_terminal = is_terminal_state_after(g, action)]
    IN  Append([tree EXCEPT ![n].untried_actions = RemoveAt(@, idx + 1),
                            ![n].children = Append(@, Len(tree) + 1)],
               child)

\* backpropagate that begins at the parent of the node
RECURSIVE BackpropagateAbove(_, _, _)
BackpropagateAbove(tree, n, value) ==
    IF n = 0 \/ tree[n].parent = 0 THEN tree
    ELSE BackpropagateAbove([tree EXCEPT ![tree[n].parent].visits = @ + 1,
                                         ![tree[n].parent].total_value = @ - value],
                            tree[n].parent, -value)

RECURSIVE backpropagate(_, _, _)
backpropagate(tree, n, value) ==
    IF n = 0 THEN tree
    ELSE backpropagate([tree EXCEPT ![n].visits = @ + 1, ![n].total_value = @ + value],
                       tree[n].parent, -value)

\* the loop of get_best_action that also takes a child with as many visits
\* as the best one so far
RECURSIVE BestVisitedLoopLast(_, _, _, _, _)
BestVisitedLoopLast(tree, kids, i, best, max_visits) ==
    IF i > Len(kids) THEN best
    ELSE IF tree[kids[i]].visits >= max_visits
         THEN BestVisitedLoopLast(tree, kids, i + 1, kids[i], tree[kids[i]].visits)
         ELSE BestVisitedLoopLast(tree, kids, i + 1, best, max_visits)

\* the loop of get_best_action from child i on; best = 0 is nullptr
RECURSIVE BestVisitedLoop(_, _, _, _, _)
BestVisitedLoop(tree, kids, i, best, max_visits) ==
    IF i > Len(kids) THEN best
    ELSE IF tree[kids[i]].visits > max_visits
         THEN BestVisitedLoop(tree, kids, i + 1, kids[i], tree[kids[i]].visits)
         ELSE BestVisitedLoop(tree, kids, i + 1, best, max_visits)

get_best_action(tree) ==
    IF tree[1].children = <<>> THEN -1
    ELSE LET best == BestVisitedLoop(tree, tree[1].children, 1, 0, 0)
         IN  IF best # 0 THEN tree[best].action ELSE -1

\* total_visits when the loop starts at the second child
RECURSIVE TotalVisitsFromSecond(_, _, _)
TotalVisitsFromSecond(tree, kids, i) ==
    IF i <= 1 THEN 0 ELSE TotalVisitsFromSecond(tree, kids, i - 1) + tree[kids[i]].visits

\* total_visits of get_policy_distribution after the first i children
RECURSIVE TotalVisits(_, _, _)
TotalVisits(tree, kids, i) ==
    IF i = 0 THEN 0 ELSE TotalVisits(tree, kids, i - 1) + tree[kids[i]].visits

\* get_policy_distribution: entry i is the exact quotient <<numerator,
\* denominator>> of visits and total_visits; 0.0 is <<0, 1>>
get_policy_distribution(tree) ==
    LET kids == tree[1].children
        total_visits == TotalVisits(tree, kids, Len(kids))
    IN  [i \in 1..Len(kids) |->
            IF total_visits > 0 THEN <<tree[kids[i]].visits, total_visits>> ELSE <<0, 1>>]

(***************************************************************************)
(* MCTS sessions: a search is constructed, search(1) is called on it again *)
(* and again, and the best action and the policy are asked for in between. *)
(***************************************************************************)
\* at most this many search iterations run
MaxMctsIterations == 7

\* the action lists handed to the constructor
MctsRootActions == { <<>>, <<0, 1>>, <<2, 1, 0>> }

\* nothing has been asked since the last search iteration
NoMctsAnswer == [op |-> "none", action |-> -1, distribution |-> <<>>]

\* MCTSSearch(legal_actions) with the hooks of game g; legal_actions keeps the
\* constructor's argument
MctsNew(g, legal_actions) ==
    [game |-> g, tree |-> <<[NewNode EXCEPT !.untried_actions = legal_actions]>>,
     simulation_count |-> 0, legal_actions |-> legal_actions, answer |-> NoMctsAnswer]

\* one pass of the loop of search in which a node is expanded
SearchExpand ==
    /\ mcts.simulation_count < MaxMctsIterations
    /\ LET node == Selection(mcts.tree, 1)
       IN  /\ mcts.tree[node].untried_actions # <<>>
           /\ ~mcts.tree[node].is_terminal
           /\ \E idx \in 0..(Len(mcts.tree[node].untried_actions) - 1) :
              \E value \in SimulateValues(mcts.game) :
                 LET grown == expand(mcts.game, mcts.tree, node, idx)
                 IN  mcts' = [mcts EXCEPT !.tree = backpropagate(grown, Len(grown), value),
                                          !.simulation_count = @ + 1,
                                          !.answer = NoMctsAnswer]
    /\ UNCHANGED <<ubShift, ev, deck, eq, cfr, eqr>>

\* one pass of the loop of search in which no node is expanded
SearchLeaf ==
    /\ mcts.simulation_count < MaxMctsIterations
    /\ LET node == Selection(mcts.tree, 1)
       IN  /\ mcts.tree[node].untried_actions = <<>> \/ mcts.tree[node].is_terminal
           /\ \E value \in SimulateValues(mcts.game) :
                 mcts' = [mcts EXCEPT !.tree = backpropagate(mcts.tree, node, value),
                                      !.simulation_count = @ + 1,
                                      !.answer = NoMctsAnswer]
    /\ UNCHANGED <<ubShift, ev, deck, eq, cfr, eqr>>

\* a call of get_best_action
GetBestAction ==
    /\ mcts' = [mcts EXCEPT !.answer = [op |-> "best_action",
                                        action |-> get_best_action(mcts.tree),
                                        distribution |-> <<>>]]
    /\ UNCHANGED <<ubShift, ev, deck, eq, cfr, eqr>>

\* a call of get_policy_distribution
GetPolicyDistribution ==
    /\ mcts' = [mcts EXCEPT !.answer = [op |-> "policy", action |-> -1,
                                        distribution |-> get_policy_distribution(mcts.tree)]]
    /\ UNCHANGED <<ubShift, ev, deck, eq, cfr, eqr>>

(***************************************************************************)
(* step9: the EQR calculator.  A double is an exact quotient <<numerator,  *)
(* denominator>> in lowest terms with a positive denominator.              *)
(***************************************************************************)
RECURSIVE Gcd(_, _)
Gcd(a, b) == IF b = 0 THEN a ELSE Gcd(b, a % b)

Rat(n, d) ==
    LET g == Gcd(IF n < 0 THEN -n ELSE n, d)
    IN  <<n \div g, d \div g>>

RatMul(x, y) == Rat(x[1] * y[1], x[2] * y[2])

RatSub(x, y) == Rat(x[1] * y[2] - y[1] * x[2], x[2] * y[2])

RatAdd(x, y) == Rat(x[1] * y[2] + y[1] * x[2], x[2] * y[2])

\* x / y for y > 0
RatDiv(x, y) == Rat(x[1] * y[2], x[2] * y[1])

RatLess(x, y) == x[1] * y[2] < y[1] * x[2]

\* PositionFactors::FACTORS, UTG first
FACTORS ==
    <<Rat(75, 100), Rat(78, 100), Rat(82, 100), Rat(86, 100), Rat(92, 100), Rat(98, 100),
      Rat(118, 100), Rat(70, 100), Rat(68, 100)>>

\* PositionFactors::get_factor, for position >= 0
get_factor(position) == FACTORS[(IF position < 8 THEN position ELSE 8) + 1]

\* StackDepthAdjustment::calculate with the standard band ending at 10
StackDepthBandTo10(spr) ==
    IF RatLess(spr, Rat(1, 1)) THEN Rat(125, 100)
    ELSE IF RatLess(spr, Rat(3, 1)) THEN Rat(115, 100)
    ELSE IF RatLess(spr, Rat(7, 1)) THEN Rat(105, 100)
    ELSE IF RatLess(spr, Rat(10, 1)) THEN Rat(100, 100)
    ELSE IF RatLess(spr, Rat(25, 1)) THEN Rat(95, 100)
    ELSE Rat(90, 100)

\* StackDepthAdjustment::calculate
StackDepthAdjustment_calculate(spr) ==
    IF RatLess(spr, Rat(1, 1)) THEN Rat(125, 100)
    ELSE IF RatLess(spr, Rat(3, 1)) THEN Rat(115, 100)
    ELSE IF RatLess(spr, Rat(7, 1)) THEN Rat(105, 100)
    ELSE IF RatLess(spr, Rat(13, 1)) THEN Rat(100, 100)
    ELSE IF RatLess(spr, Rat(25, 1)) THEN Rat(95, 100)
    ELSE Rat(90, 100)

\* BoardTextureAdjustment::calculate
BoardTextureAdjustment_calculate(texture_score, in_position) ==
    IF texture_score = 0 THEN (IF in_position THEN Rat(108, 100) ELSE Rat(95, 100))
    ELSE IF texture_score = 1 THEN (IF in_position THEN Rat(102, 100) ELSE Rat(98, 100))
    ELSE (IF in_position THEN Rat(95, 100) ELSE Rat(92, 100))

\* MultiwayAdjustment::calculate, for opponents >= 1
MultiwayAdjustment_calculate(opponents) ==
    RatDiv(Rat(1, 1), RatAdd(Rat(1, 1), RatMul(Rat(18, 100), Rat(opponents - 1, 1))))

\* SkillAdjustment::calculate
SkillAdjustment_calculate(opponent_skill) ==
    RatSub(Rat(105, 100), RatMul(opponent_skill, Rat(15, 100)))

\* std::min(1.0, std::max(0.0, x))
Clip01(x) ==
    IF RatLess(x, Rat(0, 1)) THEN Rat(0, 1)
    ELSE IF RatLess(Rat(1, 1), x) THEN Rat(1, 1)
    ELSE x

\* EQREngine::calculate_complete; arg holds the parameters
calculate_complete(arg) ==
    LET position_factor == get_factor(arg.position)
        spr == IF RatLess(Rat(0, 1), arg.pot) THEN RatDiv(arg.stack, arg.pot) ELSE Rat(100, 1)
        stack_factor == StackDepthAdjustment_calculate(spr)
        board_factor == BoardTextureAdjustment_calculate(arg.board_texture, arg.in_position)
        multiway_factor == MultiwayAdjustment_calculate(arg.opponents)
        skill_factor == SkillAdjustment_calculate(arg.opponent_skill)
        product == RatMul(RatMul(RatMul(RatMul(RatMul(arg.raw_equity, position_factor),
                                               stack_factor),
                                        board_factor),
                                 multiway_factor),
                          skill_factor)
    IN  [raw_equity |-> arg.raw_equity,
         eqr |-> Clip01(product),
         position_factor |-> position_factor,
         stack_factor |-> stack_factor,
         board_factor |-> board_factor,
         multiway_factor |-> multiway_factor,
         skill_factor |-> skill_factor]

\* EQREngine::adjust_for_street, for street >= 0
STREET_FACTORS == <<Rat(95, 100), Rat(100, 100), Rat(103, 100), Rat(105, 100)>>

adjust_for_street(value, street) ==
    RatMul(value, STREET_FACTORS[(IF street < 3 THEN street ELSE 3) + 1])

\* the extern "C" entry point
calculate_eqr_advanced(arg) == calculate_complete(arg).eqr

(***************************************************************************)
(* EQR sessions: one of the entry points is called once, and the value it  *)
(* returned may be adjusted for a street.                                  *)
(***************************************************************************)
\* positions 0..MaxEqrPosition and opponent counts 1..MaxEqrOpponents are asked
MaxEqrPosition == 9
MaxEqrOpponents == 3

EqrArgs ==
    [raw_equity : {Rat(0, 1), Rat(60, 100), Rat(1, 1)},
     position : 0..MaxEqrPosition,
     stack : {Rat(0, 1), Rat(5, 1), Rat(100, 1), Rat(300, 1)},
     pot : {Rat(0, 1), Rat(10, 1)},
     board_texture : 0..2,
     opponents : 1..MaxEqrOpponents,
     in_position : BOOLEAN,
     opponent_skill : {Rat(0, 1), Rat(1, 2), Rat(1, 1)}]

NoEqrArg ==
    [raw_equity |-> Rat(0, 1), position |-> 0, stack |-> Rat(0, 1), pot |-> Rat(0, 1),
     board_texture |-> 0, opponents |-> 1, in_position |-> FALSE, opponent_skill |-> Rat(0, 1)]

EqrIdle ==
    [op |-> "none", arg |-> NoEqrArg, result |-> calculate_complete(NoEqrArg),
     value |-> Rat(0, 1), street |-> -1]

\* a call of calculate_complete
CalculateComplete ==
    /\ eqr.op = "none"
    /\ \E arg \in EqrArgs :
          eqr' = [op |-> "calculate_complete", arg |-> arg, result |-> calculate_complete(arg),
                  value |-> calculate_complete(arg).eqr, street |-> -1]
    /\ UNCHANGED <<ubShift, ev, deck, eq, cfr, mcts>>

\* a call of calculate_eqr_advanced, which hands back the eqr field alone
CalculateEqrAdvanced ==
    /\ eqr.op = "none"
    /\ \E arg \in EqrArgs :
          eqr' = [op |-> "calculate_eqr_advanced", arg |-> arg,
                  result |-> calculate_complete(NoEqrArg),
                  value |-> calculate_eqr_advanced(arg), street |-> -1]
    /\ UNCHANGED <<ubShift, ev, deck, eq, cfr, mcts>>

\* a call of adjust_for_street on the value an entry point returned
AdjustForStreet ==
    /\ eqr.op \in {"calculate_complete", "calculate_eqr_advanced"}
    /\ \E street \in 0..4 :
          eqr' = [eqr EXCEPT !.op = "adjust_for_street", !.street = street,
                             !.value = adjust_for_street(eqr.value, street)]
    /\ UNCHANGED <<ubShift, ev, deck, eq, cfr, mcts>>

(***************************************************************************)
(* The specifications                                                      *)
(***************************************************************************)
EvalInit ==
    /\ ubShift \in BOOLEAN
    /\ \E d \in DOMAIN EvalDecks : \E p \in EvalPairs(d) :
          ev = [cards |-> p, score |-> <<-1, -1>>]
    /\ deck = DeckNew
    /\ eq = EqIdle
    /\ cfr = CfrNew(1)
    /\ mcts = MctsNew(1, <<>>)
    /\ eqr = EqrIdle

EvalNext == \E k \in 1..2 : Evaluate(k)

SpecEval == EvalInit /\ [][EvalNext]_vars

DeckInit ==
    /\ ubShift = FALSE
    /\ ev = EvalIdle
    /\ deck = DeckNew
    /\ eq = EqIdle
    /\ cfr = CfrNew(1)
    /\ mcts = MctsNew(1, <<>>)
    /\ eqr = EqrIdle

DeckNext ==
    \/ \E seed \in 0..MaxDeckSeed : DeckShuffle(seed)
    \/ DeckDeal
    \/ DeckDealExhausted
    \/ DeckReset
    \/ \E m \in DeckMasks, ub \in BOOLEAN : DeckExclude(m, ub)

SpecDeck == DeckInit /\ [][DeckNext]_vars

EqInit ==
    /\ ubShift = FALSE
    /\ ev = EvalIdle
    /\ deck = DeckNew
    /\ \E arg \in EqCalls, hw \in 1..MaxEqThreads : eq = EqCall(arg, hw)
    /\ cfr = CfrNew(1)
    /\ mcts = MctsNew(1, <<>>)
    /\ eqr = EqrIdle

EqNext ==
    \/ \E rd \in 0..MaxEqSeed : CalcEntry(rd)
    \/ CalcSpawn
    \/ \E t \in 0..(MaxEqThreads - 1) : ThreadStart(t)
    \/ \E t \in 0..(MaxEqThreads - 1) : ThreadIterate(t)
    \/ \E t \in 0..(MaxEqThreads - 1) : ThreadReturn(t)
    \/ CalcJoin
    \/ CalcAggregate

SpecEq == EqInit /\ [][EqNext]_vars

CfrInit ==
    /\ ubShift = FALSE
    /\ ev = EvalIdle
    /\ deck = DeckNew
    /\ eq = EqIdle
    /\ \E g \in DOMAIN Games : cfr = CfrNew(g)
    /\ mcts = MctsNew(1, <<>>)
    /\ eqr = EqrIdle

CfrNext ==
    \/ TrainPass
    \/ CfrTerminal
    \/ CfrOverflow
    \/ CfrChanceNode
    \/ CfrPlayerNode
    \/ CfrOpponentNode
    \/ HandlerCall
    \/ HandlerResume
    \/ PlayerNodeReturn
    \/ OpponentNodeReturn
    \/ ChanceNodeReturn
    \/ TrainNextPlayer
    \/ TrainPassEnd
    \/ TrainPassEndDiscount
    \/ \E k \in QueryKeys, acts \in QueryActions : GetStrategy(k, acts)

SpecCFR == CfrInit /\ [][CfrNext]_vars

MctsInit ==
    /\ ubShift = FALSE
    /\ ev = EvalIdle
    /\ deck = DeckNew
    /\ eq = EqIdle
    /\ cfr = CfrNew(1)
    /\ \E g \in DOMAIN MctsGames, legal_actions \in MctsRootActions :
          mcts = MctsNew(g, legal_actions)
    /\ eqr = EqrIdle

MctsNext ==
    \/ SearchExpand
    \/ SearchLeaf
    \/ GetBestAction
    \/ GetPolicyDistribution

SpecMCTS == MctsInit /\ [][MctsNext]_vars

EqrInit ==
    /\ ubShift = FALSE
    /\ ev = EvalIdle
    /\ deck = DeckNew
    /\ eq = EqIdle
    /\ cfr = CfrNew(1)
    /\ mcts = MctsNew(1, <<>>)
    /\ eqr = EqrIdle

EqrNext ==
    \/ CalculateComplete
    \/ CalculateEqrAdvanced
    \/ AdjustForStreet

SpecEQR == EqrInit /\ [][EqrNext]_vars

(***************************************************************************)
(* A reference evaluator by enumeration of the 21 five-card hands, under   *)
(* the standard rules. It is used only to state the claims.                *)
(***************************************************************************)
RefCount(five, r) == Cardinality({c \in five : get_rank(c) = r})

RefRanks(five) == {get_rank(c) : c \in five}

RefIsFlush(five) == Cardinality({get_suit(c) : c \in five}) = 1

RefIsWheel(five) == RefRanks(five) = {12, 0, 1, 2, 3}

RefIsStraight(five) ==
    /\ Cardinality(RefRanks(five)) = 5
    /\ \/ MaxOf(RefRanks(five)) - MinOf(RefRanks(five)) = 4
       \/ RefIsWheel(five)

RefStraightHigh(five) == IF RefIsWheel(five) THEN 3 ELSE MaxOf(RefRanks(five))

RefCategory(five) ==
    LET cnt == {RefCount(five, r) : r \in RefRanks(five)}
        n   == Cardinality(RefRanks(five))
    IN  IF RefIsFlush(five) /\ RefIsStraight(five) THEN 8
        ELSE IF 4 \in cnt THEN 7
        ELSE IF cnt = {3, 2} THEN 6
        ELSE IF RefIsFlush(five) THEN 5
        ELSE IF RefIsStraight(five) THEN 4
        ELSE IF 3 \in cnt THEN 3
        ELSE IF n = 3 THEN 2
        ELSE IF n = 4 THEN 1
        ELSE 0

\* the ranks of the hand, most frequent first and then highest first, read as
\* a number in base 13
RECURSIVE RefTiebreak(_, _)
RefTiebreak(five, left) ==
    IF left = {} THEN 0
    ELSE LET key(r) == RefCount(five, r) * 13 + r
             top == CHOOSE r \in left : \A q \in left : key(q) <= key(r)
         IN  top * (13 ^ (Cardinality(left) - 1)) + RefTiebreak(five, left \ {top})

RefValue5(five) ==
    LET cat == RefCategory(five)
    IN  cat * (13 ^ 5) +
        (IF cat \in {8, 4} THEN RefStraightHigh(five) ELSE RefTiebreak(five, RefRanks(five)))

FiveOf(hand) == {hand \ {x, y} : x, y \in hand} \cap {S \in SUBSET hand : Cardinality(S) = 5}

RefValue7(cards) ==
    LET hand == {cards[i] : i \in 1..7}
    IN  MaxOf({RefValue5(f) : f \in FiveOf(hand)})

RefCategory7(cards) == RefValue7(cards) \div (13 ^ 5)

\* the category field of a score: the 4 bits above the tiebreaker nibbles
ScoreCategory(score) == Shr(score, 12) % 16

ScoreNibble(score, n) == Shr(score, 4 * n) % 16

(***************************************************************************)
(* Claims about the evaluator (checked under SpecEval)                     *)
(***************************************************************************)
BothEvaluated == ev.score[1] # -1 /\ ev.score[2] # -1

\* C1: the scores of any two 7-card sets are ordered exactly as the best
\* five-card hands of the sets are ordered under the standard rules, and the
\* scores are equal exactly when the hands split.
C1_ScoresAgreeWithReference ==
    BothEvaluated =>
        /\ (ev.score[1] > ev.score[2]) <=> (RefValue7(ev.cards[1]) > RefValue7(ev.cards[2]))
        /\ (ev.score[1] = ev.score[2]) <=> (RefValue7(ev.cards[1]) = RefValue7(ev.cards[2]))

\* C2: the category field of every returned score is in 0..8 and is the
\* category of the best five-card hand.
C2_CategoryFieldIsCategory ==
    \A k \in 1..2 :
        ev.score[k] # -1 =>
            /\ ScoreCategory(ev.score[k]) \in 0..8
            /\ ScoreCategory(ev.score[k]) = RefCategory7(ev.cards[k])

\* the array holds A-2-3-4-5 of one suit and not the six of that suit
HasWheelFlushNoSix(cards) ==
    \E s \in 0..3 :
        /\ {make_card(r, s) : r \in {12, 0, 1, 2, 3}} \subseteq {cards[i] : i \in 1..7}
        /\ make_card(4, s) \notin {cards[i] : i \in 1..7}

BestIsSixHighStraightFlush(cards) == RefValue7(cards) = 8 * (13 ^ 5) + 4

\* C3: a wheel of one suit without the six of that suit scores as a
\* straight flush (category 8) with high-card index 3, strictly below the
\* score of every set whose best hand is a six-high straight flush.
C3_WheelStraightFlush ==
    \A k \in 1..2 :
        (ev.score[k] # -1 /\ HasWheelFlushNoSix(ev.cards[k])) =>
            /\ ScoreCategory(ev.score[k]) = 8
            /\ ScoreNibble(ev.score[k], 2) = 3
            /\ ev.score[k] = 8 * 4096 + 3 * 256
            /\ \A j \in 1..2 :
                 (ev.score[j] # -1 /\ BestIsSixHighStraightFlush(ev.cards[j]))
                     => ev.score[k] < ev.score[j]

C3_Witness ==
    \E k, j \in 1..2 :
        /\ BothEvaluated
        /\ HasWheelFlushNoSix(ev.cards[k])
        /\ BestIsSixHighStraightFlush(ev.cards[j])
        /\ ~ubShift

\* the ranks that occur exactly n times among the seven cards
RanksHeld(cards, n) ==
    {r \in 0..12 : Cardinality({i \in 1..7 : get_rank(cards[i]) = r}) = n}

\* the score of a full house of `trips` over `pair`
FullHouseScore(trips, pair) == RANK_FULL_HOUSE * 4096 + trips * 256 + pair

\* C15: seven cards with three of one rank and three of another score as a
\* full house (category 6) with the higher rank as the trips rank and the
\* lower as the pair rank; seven cards with one trips and one or two pairs
\* score as a full house of the trips over the highest pair.
C15_FullHouseOfTwoTrips ==
    \A k \in 1..2 :
        ev.score[k] # -1 =>
            LET trips == RanksHeld(ev.cards[k], 3)
                pairs == RanksHeld(ev.cards[k], 2)
            IN  /\ Cardinality(trips) = 2 =>
                      /\ ScoreCategory(ev.score[k]) = 6
                      /\ ev.score[k] = FullHouseScore(MaxOf(trips), MinOf(trips))
                /\ (Cardinality(trips) = 1 /\ pairs # {}) =>
                      /\ ScoreCategory(ev.score[k]) = 6
                      /\ ev.score[k] = FullHouseScore(MaxOf(trips), MaxOf(pairs))

(***************************************************************************)
(* Claims about Deck (checked under SpecDeck)                              *)
(***************************************************************************)
\* C7: after exclude_cards(mask), followed only by deal() and reset() calls,
\* every value deal() returns is a card in [0, 52) that is not in mask.
C7_DealtCardsSurvive ==
    (deck.clean /\ deck.dealt # -1) =>
        (deck.dealt \in 0..(DECK_SIZE - 1) /\ deck.dealt \notin deck.mask)

(***************************************************************************)
(* Claims on the equity simulator                                          *)
(***************************************************************************)
\* the call asks for no more cards than survive in the deck
DeckSuffices == SurvivingCards(eq.arg) >= CardsNeeded(eq.arg)

\* what the call returns when the threads run one after the other
SequentialResult ==
    WithEquity(SumResults([t \in 1..eq.num_threads |->
                              run_simulation(eq.arg, eq.iters_per_thread, U64(eq.seed + t - 1))],
                          eq.num_threads))

\* C4: with a fixed non-zero seed and a fixed thread count, a slot of
\* `results` holds the initial zeros until its own thread stores its Result
\* there, the coordinator adds the slots up only after every thread has
\* finished, and what it returns is what the threads yield when they run one
\* after the other with the seeds seed, seed + 1, ...: the same under every
\* interleaving.
C4_ReproducibleAggregate ==
    (eq.arg.seed # 0 /\ DeckSuffices) =>
        /\ \A t \in 1..Len(eq.threads) :
              /\ eq.threads[t].pc # "done" => eq.results[t] = NewResult(0)
              /\ eq.threads[t].pc = "done" => eq.results[t] = eq.threads[t].result
        /\ eq.pc = "done" =>
              /\ \A t \in 1..Len(eq.threads) : eq.threads[t].pc = "done"
              /\ eq.final = SequentialResult

C4_Witness ==
    /\ eq.pc = "done"
    /\ eq.arg.seed # 0
    /\ DeckSuffices
    /\ eq.num_threads >= 2
    /\ eq.iters_per_thread >= 2
    /\ eq.final.wins >= 1

\* C5: when the deck suffices, wins + ties + losses equals the loop counter
\* in every thread, equals iterations in every Result a thread has stored,
\* and equals iterations in the aggregate the call returns.
C5_CountersSumToIterations ==
    DeckSuffices =>
        /\ \A t \in 1..Len(eq.threads) :
              LET w == eq.threads[t]
              IN  /\ w.pc = "loop" => w.result.wins + w.result.ties + w.result.losses = w.iter
                  /\ w.pc = "done" =>
                        LET r == eq.results[t]
                        IN  r.wins + r.ties + r.losses = r.iterations
        /\ eq.pc = "done" =>
              eq.final.wins + eq.final.ties + eq.final.losses = eq.final.iterations

C5_Witness ==
    /\ eq.pc = "done"
    /\ DeckSuffices
    /\ eq.num_threads >= 2
    /\ eq.final.iterations >= 2
    /\ eq.final.ties >= 1

\* the scores of the iteration that left `deck` as dk: the hero's, and the
\* opponents' in the order of the loop
IterationBoard(dk) == FullBoard(eq.arg.board, eq.arg.board_count, dk)

IterationHeroScore(dk) ==
    evaluate_7cards(SevenCards(eq.arg.hero_card1, eq.arg.hero_card2, IterationBoard(dk)))

IterationOppScores(dk) ==
    [opp \in 1..eq.arg.opponents |->
        evaluate_7cards(SevenCards(DeckSlot(dk, 5 - eq.arg.board_count + 2 * (opp - 1)),
                                   DeckSlot(dk, 5 - eq.arg.board_count + 2 * (opp - 1) + 1),
                                   IterationBoard(dk)))]

\* the counters went from `before` to `after` as the scores alone demand:
\* loss iff some opponent's score is above the hero's, win iff every one is
\* below it, tie iff none is above and one is equal; one counter went up by 1
ClassifiedByScores(before, after, hero_score, opp_scores) ==
    LET S == {opp_scores[i] : i \in DOMAIN opp_scores}
        loss == \E x \in S : x > hero_score
        win == \A x \in S : x < hero_score
        tie == (\A x \in S : x <= hero_score) /\ (\E x \in S : x = hero_score)
    IN  /\ after.losses - before.losses = (IF loss THEN 1 ELSE 0)
        /\ after.wins - before.wins = (IF win THEN 1 ELSE 0)
        /\ after.ties - before.ties = (IF tie THEN 1 ELSE 0)
        /\ (after.wins + after.ties + after.losses)
              - (before.wins + before.ties + before.losses) = 1

\* thread t has made one pass of the loop over iter in this step
IterationStep(t) ==
    /\ t <= Len(eq.threads)
    /\ eq.threads[t].pc = "loop"
    /\ eq'.threads[t].pc = "loop"
    /\ eq'.threads[t].iter = eq.threads[t].iter + 1

\* C16: in each iteration with N >= 1 opponents (and a deck that suffices),
\* the outcome is classified from the scores alone, whatever the order of the
\* opponents: a loss iff some opponent's score is strictly greater than the
\* hero's, a win iff the hero's is strictly greater than every opponent's, a
\* tie iff no opponent's exceeds the hero's and one equals it; exactly one of
\* wins, ties, losses is incremented.
C16_OutcomeClassifiedByScores ==
    [][\A t \in 1..MaxEqThreads :
          (DeckSuffices /\ IterationStep(t)) =>
              ClassifiedByScores(eq.threads[t].result, eq'.threads[t].result,
                                 IterationHeroScore(eq'.threads[t].deck),
                                 IterationOppScores(eq'.threads[t].deck))]_vars

\* a thread has just lost an iteration in which the first of two opponents
\* was above the hero and the second below
C16_Witness ==
    \E t \in 1..Len(eq.threads) :
        /\ DeckSuffices
        /\ eq.arg.opponents = 2
        /\ eq.threads[t].pc = "loop"
        /\ eq.threads[t].iter >= 1
        /\ eq.threads[t].result.losses >= 1
        /\ IterationOppScores(eq.threads[t].deck)[1] > IterationHeroScore(eq.threads[t].deck)
        /\ IterationOppScores(eq.threads[t].deck)[2] < IterationHeroScore(eq.threads[t].deck)

\* C19: for every iteration target T >= 0 and every worker count H >= 1, the
\* iterations handed to the H workers add up to T, and the iterations field
\* that calculate_equity returns is T.
C19_IterationsAddUp ==
    /\ eq.pc \in {"spawn", "join", "done"} =>
          eq.iters_per_thread * eq.num_threads = eq.arg.iterations
    /\ eq.pc = "done" => eq.final.iterations = eq.arg.iterations

\* C6: when fewer cards survive than one iteration takes, the call returns
\* zero iterations (the code has no failing outcome) and no thread reads a
\* slot of `deck` at or beyond the number of surviving cards.
C6_InsufficientDeckRejected ==
    ~DeckSuffices =>
        /\ \A t \in 1..Len(eq.threads) : ~eq.threads[t].outside
        /\ eq.pc = "done" => eq.final.iterations = 0

(***************************************************************************)
(* Claims on the CFR solver                                                *)
(***************************************************************************)
\* C8: in every state of a CFRSolver, between and inside train passes and
\* after the discounting at every 100th iteration, every stored
\* regret_sum[a] of every information set is >= 0.
C8_RegretsNonNegative ==
    \A key \in DOMAIN cfr.info_sets :
        \A a \in DOMAIN cfr.info_sets[key].regret_sum :
            cfr.info_sets[key].regret_sum[a] >= 0

\* the discounting has run, some regret is positive and some update was clipped
C8_Witness ==
    /\ cfr.pc = "idle"
    /\ cfr.iteration = DiscountPeriod
    /\ \E key \in DOMAIN cfr.info_sets :
          /\ cfr.info_sets[key].visit_count >= DiscountPeriod
          /\ \E a \in DOMAIN cfr.info_sets[key].regret_sum :
                cfr.info_sets[key].regret_sum[a] > 0
          /\ \E a \in DOMAIN cfr.info_sets[key].regret_sum :
                cfr.info_sets[key].regret_sum[a] = 0

InfoSetValuesKept(key) ==
    /\ key \in DOMAIN cfr'.info_sets
    /\ LET after == cfr'.info_sets[key]
           before == IF key \in DOMAIN cfr.info_sets THEN cfr.info_sets[key] ELSE NewInfoSet
       IN  /\ after.visit_count = before.visit_count
           /\ DOMAIN before.regret_sum \subseteq DOMAIN after.regret_sum
           /\ \A a \in DOMAIN after.regret_sum :
                 after.regret_sum[a] =
                     IF a \in DOMAIN before.regret_sum THEN before.regret_sum[a] ELSE 0
           /\ DOMAIN before.strategy_sum \subseteq DOMAIN after.strategy_sum
           /\ \A a \in DOMAIN after.strategy_sum :
                 after.strategy_sum[a] =
                     IF a \in DOMAIN before.strategy_sum THEN before.strategy_sum[a] ELSE 0

\* this step enters handle_opponent_node
OpponentNodeEntered ==
    /\ cfr.pc = "call"
    /\ cfr'.pc = "loop"
    /\ Len(cfr'.stack) = Len(cfr.stack) + 1
    /\ cfr'.stack[Len(cfr'.stack)].kind = "opponent"

\* this step is the recursive call in the loop of handle_opponent_node
OpponentNodeRecurses ==
    /\ cfr.pc = "loop"
    /\ cfr'.pc = "call"
    /\ cfr.stack # <<>>
    /\ Top.kind = "opponent"

\* C17: during the traversal that updates player p, handle_opponent_node
\* changes no stored regret value, no strategy-sum value and no visit counter
\* of its node's information set, from its entry to its return; its recursive
\* call passes the player's reach on as it is and the opponent's reach
\* multiplied by the regret-matching strategy[a] of that information set.
C17_OpponentNodeKeepsInfoSet ==
    [][/\ OpponentNodeEntered =>
            InfoSetValuesKept(cfr'.stack[Len(cfr'.stack)].info_set_key)
       /\ \A i \in 1..Len(cfr.stack) :
             cfr.stack[i].kind = "opponent" => InfoSetValuesKept(cfr.stack[i].info_set_key)
       /\ OpponentNodeRecurses =>
             LET a == Top.items[Top.i + 1]
                 strategy == InfoSet_get_strategy(cfr.info_sets[Top.info_set_key].regret_sum,
                                                  Top.items)
             IN  /\ cfr'.call.pi_reach_opponent = MulFP(Top.pi_reach_opponent, strategy[a])
                 /\ cfr'.call.pi_reach_player = Top.pi_reach_player
                 /\ cfr'.call.depth = Top.depth + 1]_vars

\* handle_opponent_node is making a recursive call at an information set that
\* has been visited and holds a positive regret, with a strategy[a] below 1
C17_Witness ==
    /\ cfr.pc = "call"
    /\ cfr.stack # <<>>
    /\ Top.kind = "opponent"
    /\ cfr.info_sets[Top.info_set_key].visit_count >= 1
    /\ \E a \in DOMAIN cfr.info_sets[Top.info_set_key].regret_sum :
          cfr.info_sets[Top.info_set_key].regret_sum[a] > 0
    /\ cfr.call.pi_reach_opponent < Top.pi_reach_opponent
    /\ cfr.call.pi_reach_opponent > 0

\* C18: with the game hooks built into the source, train(n) with n >= 1 never
\* completes an iteration: once it has begun, the solver is inside the first
\* traversal of iteration 1 for good, every handler on the stack is in the
\* first pass of its loop, no cfr_recursive call has returned, and every
\* regret_sum and strategy_sum entry and every visit_count is still 0.
C18_StubHooksNeverReturn ==
    (Games[cfr.game] = StubGame /\ cfr.iteration >= 1) =>
        /\ cfr.iteration = 1
        /\ cfr.player = 0
        /\ cfr.pc \in {"call", "loop", "overflow"}
        /\ \A i \in 1..Len(cfr.stack) : cfr.stack[i].kind = "player" /\ cfr.stack[i].i = 0
        /\ \A key \in DOMAIN cfr.info_sets :
              /\ cfr.info_sets[key].visit_count = 0
              /\ \A a \in DOMAIN cfr.info_sets[key].regret_sum :
                    cfr.info_sets[key].regret_sum[a] = 0
              /\ \A a \in DOMAIN cfr.info_sets[key].strategy_sum :
                    cfr.info_sets[key].strategy_sum[a] = 0

\* the descent under the source's hooks has used up the call stack
C18_Witness ==
    /\ Games[cfr.game] = StubGame
    /\ cfr.pc = "overflow"
    /\ Len(cfr.stack) >= 3

(***************************************************************************)
(* Claims on the MCTS engine                                              *)
(***************************************************************************)
\* the sum of the visits of the children kids[1..i]
RECURSIVE ChildVisits(_, _, _)
ChildVisits(tree, kids, i) ==
    IF i = 0 THEN 0 ELSE ChildVisits(tree, kids, i - 1) + tree[kids[i]].visits

\* C10: after any number of completed search iterations, every node other
\* than the root that has a child has visits = (sum of the visits of its
\* children) + 1.
C10_VisitsOfInnerNodes ==
    \A n \in 2..Len(mcts.tree) :
        mcts.tree[n].children # <<>> =>
            mcts.tree[n].visits =
                ChildVisits(mcts.tree, mcts.tree[n].children, Len(mcts.tree[n].children)) + 1

\* a node below the root has two children, one of them with a child of its own
C10_Witness ==
    \E n \in 2..Len(mcts.tree) :
        /\ Len(mcts.tree[n].children) >= 2
        /\ \E i \in 1..Len(mcts.tree[n].children) :
              /\ mcts.tree[mcts.tree[n].children[i]].visits >= 2
              /\ mcts.tree[mcts.tree[n].children[i]].children # <<>>

\* the legal-action list node n was created with: the constructor's argument
\* for the root, get_legal_actions_after(action) for a node made by expand
CreatedWith(n) ==
    IF n = 1 THEN mcts.legal_actions
    ELSE get_legal_actions_after(mcts.game, mcts.tree[n].action)

\* the actions of the children of node n, in the order of the children
ChildActions(tree, n) == [i \in 1..Len(tree[n].children) |-> tree[tree[n].children[i]].action]

\* how often x occurs in the sequence s
Occurrences(s, x) == Cardinality({i \in 1..Len(s) : s[i] = x})

\* untried_actions and the children's actions of node n are disjoint and
\* together hold each action of the creation list as often as the list does
PartitionsLegalActions(tree, n) ==
    LET kid_actions == ChildActions(tree, n)
    IN  /\ SeqRange(tree[n].untried_actions) \cap SeqRange(kid_actions) = {}
        /\ \A a \in SeqRange(CreatedWith(n)) \cup SeqRange(tree[n].untried_actions)
                    \cup SeqRange(kid_actions) :
              Occurrences(tree[n].untried_actions, a) + Occurrences(kid_actions, a)
                  = Occurrences(CreatedWith(n), a)

\* expand(n) with draw idx takes untried_actions[idx] out of the list, hangs a
\* new last child with that action under n and leaves every other field of n
\* and every other node as it was
ExpandMovesOneAction(g, tree, n, idx) ==
    LET grown == expand(g, tree, n, idx)
        before == tree[n].untried_actions
        after == grown[n].untried_actions
    IN  /\ Len(grown) = Len(tree) + 1
        /\ \A m \in 1..Len(tree) : m # n => grown[m] = tree[m]
        /\ Len(after) = Len(before) - 1
        /\ \A i \in 1..Len(after) : after[i] = before[IF i <= idx THEN i ELSE i + 1]
        /\ grown[n].children = Append(tree[n].children, Len(grown))
        /\ grown[Len(grown)].action = before[idx + 1]
        /\ grown[Len(grown)].parent = n
        /\ grown[Len(grown)].children = <<>>
        /\ [grown[n] EXCEPT !.untried_actions = <<>>, !.children = <<>>]
               = [tree[n] EXCEPT !.untried_actions = <<>>, !.children = <<>>]

\* C11: in every reachable state of an MCTS tree, untried_actions and the
\* children's actions of every node are disjoint and together are the
\* legal-action list the node was created with; and the expand that the next
\* search iteration can make moves exactly one action from untried_actions to
\* a new child and changes nothing else of the node.
C11_UntriedAndChildrenPartition ==
    /\ \A n \in 1..Len(mcts.tree) : PartitionsLegalActions(mcts.tree, n)
    /\ LET node == Selection(mcts.tree, 1)
       IN  (mcts.tree[node].untried_actions # <<>> /\ ~mcts.tree[node].is_terminal) =>
              \A idx \in 0..(Len(mcts.tree[node].untried_actions) - 1) :
                 /\ ExpandMovesOneAction(mcts.game, mcts.tree, node, idx)
                 /\ LET grown == expand(mcts.game, mcts.tree, node, idx)
                    IN  \A a \in SeqRange(mcts.tree[node].untried_actions) :
                           Occurrences(grown[node].untried_actions, a)
                             + Occurrences(ChildActions(grown, node), a)
                           = Occurrences(mcts.tree[node].untried_actions, a)
                             + Occurrences(ChildActions(mcts.tree, node), a)

\* a node below the root has a child and an untried action, and the next
\* search iteration expands it again
C11_Witness ==
    \E n \in 2..Len(mcts.tree) :
        /\ mcts.tree[n].children # <<>>
        /\ mcts.tree[n].untried_actions # <<>>
        /\ ~mcts.tree[n].is_terminal
        /\ Selection(mcts.tree, 1) = n

\* C12: after N >= 1 search iterations on a search with a non-empty root
\* action list, get_best_action returns the action of the root child with the
\* highest visit count, and the first-added one of those that share it.
C12_BestActionMostVisitedFirstAdded ==
    (/\ mcts.answer.op = "best_action"
     /\ mcts.simulation_count >= 1
     /\ mcts.legal_actions # <<>>) =>
        LET kids == mcts.tree[1].children
        IN  \E i \in 1..Len(kids) :
               /\ mcts.answer.action = mcts.tree[kids[i]].action
               /\ \A j \in 1..Len(kids) : mcts.tree[kids[j]].visits <= mcts.tree[kids[i]].visits
               /\ \A j \in 1..(i - 1) : mcts.tree[kids[j]].visits < mcts.tree[kids[i]].visits

\* get_best_action has answered while two root children shared the highest
\* visit count, which is above 1
C12_Witness ==
    /\ mcts.answer.op = "best_action"
    /\ mcts.simulation_count >= 1
    /\ LET kids == mcts.tree[1].children
       IN  \E i, j \in 1..Len(kids) :
              /\ i < j
              /\ mcts.tree[kids[i]].visits = mcts.tree[kids[j]].visits
              /\ mcts.tree[kids[i]].visits >= 2
              /\ \A k \in 1..Len(kids) : mcts.tree[kids[k]].visits <= mcts.tree[kids[i]].visits
              /\ mcts.answer.action = mcts.tree[kids[i]].action

\* the exact sum <<numerator, denominator>> of the first i entries of a
\* distribution of quotients
RECURSIVE QuotientSum(_, _)
QuotientSum(distribution, i) ==
    IF i = 0 THEN <<0, 1>>
    ELSE LET rest == QuotientSum(distribution, i - 1)
         IN  <<rest[1] * distribution[i][2] + distribution[i][1] * rest[2],
               rest[2] * distribution[i][2]>>

SumsToOne(distribution) ==
    LET total == QuotientSum(distribution, Len(distribution))
    IN  total[1] = total[2]

EqrExample ==
    [raw_equity |-> Rat(60, 100), position |-> 6, stack |-> Rat(100, 1), pot |-> Rat(10, 1),
     board_texture |-> 0, opponents |-> 1, in_position |-> TRUE, opponent_skill |-> Rat(1, 2)]

\* the result whose factors are the five given ones and whose eqr is their
\* product with raw
EqrOutcome(raw, position_factor, stack_factor, board_factor, multiway_factor, skill_factor) ==
    [raw_equity |-> raw,
     eqr |-> RatMul(raw, RatMul(position_factor, RatMul(stack_factor,
                 RatMul(board_factor, RatMul(multiway_factor, skill_factor))))),
     position_factor |-> position_factor,
     stack_factor |-> stack_factor,
     board_factor |-> board_factor,
     multiway_factor |-> multiway_factor,
     skill_factor |-> skill_factor]

\* C14 as stated: calculate_complete on the example uses position factor 1.18,
\* stack factor 0.90, board factor 1.08, multiway factor 1.0 and skill factor
\* 0.975 and returns eqr = 0.60 * 1.18 * 0.90 * 1.08 * 1.0 * 0.975.
C14_EqrExampleStackFactor090 ==
    (eqr.op = "calculate_complete" /\ eqr.arg = EqrExample) =>
        eqr.result = EqrOutcome(Rat(60, 100), Rat(118, 100), Rat(90, 100), Rat(108, 100),
                                Rat(1, 1), Rat(975, 1000))

\* C14, amended: calculate_complete on the example has SPR 10, so it uses
\* stack factor 1.00 with position factor 1.18, board factor 1.08, multiway
\* factor 1.0 and skill factor 0.975, and returns
\* eqr = 0.60 * 1.18 * 1.00 * 1.08 * 1.0 * 0.975 = 0.745524.
C14_EqrExampleStackFactor100 ==
    (eqr.op = "calculate_complete" /\ eqr.arg = EqrExample) =>
        /\ eqr.result = EqrOutcome(Rat(60, 100), Rat(118, 100), Rat(100, 100), Rat(108, 100),
                                   Rat(1, 1), Rat(975, 1000))
        /\ eqr.result.eqr = Rat(745524, 1000000)

\* calculate_complete has been called on the example
C14_Witness == eqr.op = "calculate_complete" /\ eqr.arg = EqrExample

====
